---- MODULE Spec2Model ----
(***************************************************************************)
(* DomainGuard: the event-driven alert and automation engine.              *)
(*                                                                         *)
(*   SpecAuto   the Auto-Action Engine (AutoActionsService): event         *)
(*              handlers checkAutoRenewal / checkAutoPurchase, the         *)
(*              execution steps with the in-flight lock (activeActions)    *)
(*              and the spending ledger (monthlySpending), and the cron    *)
(*              jobs cleanupStaleActions / resetMonthlyLimits.             *)
(*   SpecAlert  the Alert Dispatcher (AlertService): processExpiryEvent /  *)
(*              processSaleEvent, sendAlert with the frequency gate, the   *)
(*              dedup window (processedEvents) and the trigger counts.     *)
(*                                                                         *)
(* A handler is an async function: it runs atomically from one await to    *)
(* the next, so every action below is "a promise the handler awaits has    *)
(* settled" followed by the synchronous code up to the next await.         *)
(* Collaborators (database, chain) settle with a result or with an error.  *)
(***************************************************************************)
EXTENDS Integers, Sequences, FiniteSets, TLC

(***************************************************************************)
(* Bounds of the model.                                                    *)
(***************************************************************************)
\* events the contract monitor delivers to the Auto-Action Engine in one run
MaxDeliveries == 2
\* clock steps of TickMs the model lets pass
MaxTicks == 1
\* milliseconds per clock step (two hours)
TickMs == 7200000
\* events delivered to the Alert Dispatcher in one run
MaxAlertDeliveries == 2

(***************************************************************************)
(* Strings are sequences of one-character strings.                         *)
(***************************************************************************)
NULL == "null"

\* String.prototype.toLowerCase on the characters the model uses
ToLower(c) ==
  CASE c = "A" -> "a"
    [] c = "P" -> "p"
    [] c = "E" -> "e"
    [] OTHER -> c

RECURSIVE ReplaceAll(_, _, _)
\* str.replace(/c/g, to): every occurrence of character c becomes the string to
ReplaceAll(str, c, to) ==
  IF str = <<>> THEN <<>>
  ELSE (IF Head(str) = c THEN to ELSE <<Head(str)>>) \o ReplaceAll(Tail(str), c, to)

RECURSIVE RegexAtoms(_, _)
\* new RegExp(src): the atoms of src, each a character or "." (any character),
\* each possibly followed by the quantifier "*"; a "*" with nothing to repeat
\* is a SyntaxError, modelled as the value "SyntaxError".
RegexAtoms(src, acc) ==
  IF src = <<>> THEN acc
  ELSE IF Head(src) \in {"(", "["}
       THEN \* a group or class that is never closed (no pattern here closes one)
            "SyntaxError"
  ELSE IF Head(src) = "*"
       THEN IF acc = <<>> \/ acc[Len(acc)].star
            THEN "SyntaxError"
            ELSE RegexAtoms(Tail(src),
                            [acc EXCEPT ![Len(acc)] = [@ EXCEPT !.star = TRUE]])
       ELSE RegexAtoms(Tail(src),
                       Append(acc, [ch |-> Head(src), star |-> FALSE]))

AtomFits(a, c) == a.ch = "." \/ ToLower(a.ch) = ToLower(c)

RECURSIVE RegexMatchAt(_, _, _, _, _)
\* backtracking match of atoms[i..] against s[j..]; toEnd: the match must
\* end at the end of s (the pattern ends with "$"). Flag "i": case-insensitive.
RegexMatchAt(atoms, s, i, j, toEnd) ==
  IF i > Len(atoms) THEN (~toEnd \/ j > Len(s))
  ELSE IF atoms[i].star
       THEN \/ RegexMatchAt(atoms, s, i + 1, j, toEnd)
            \/ /\ j <= Len(s)
               /\ AtomFits(atoms[i], s[j])
               /\ RegexMatchAt(atoms, s, i, j + 1, toEnd)
       ELSE /\ j <= Len(s)
            /\ AtomFits(atoms[i], s[j])
            /\ RegexMatchAt(atoms, s, i + 1, j + 1, toEnd)

\* new RegExp(src, 'i').test(s): "SyntaxError" when src does not compile
RegexTest(src, s, anchored) ==
  LET atoms == RegexAtoms(src, <<>>) IN
  IF atoms = "SyntaxError" THEN "SyntaxError"
  ELSE IF anchored THEN RegexMatchAt(atoms, s, 1, 1, TRUE)
  ELSE \E start \in 1..(Len(s) + 1) : RegexMatchAt(atoms, s, 1, start, FALSE)

LowerStr(s) == [i \in DOMAIN s |-> ToLower(s[i])]

\* s contains sub (SQL LIKE '%sub%', which ignores ASCII case)
Contains(s, sub) ==
  \E i \in 1..(Len(s) + 1) :
    /\ i + Len(sub) - 1 <= Len(s)
    /\ LowerStr(SubSeq(s, i, i + Len(sub) - 1)) = LowerStr(sub)

\* a bag of records: record -> number of copies
EmptyBag == <<>>
BagAdd(b, r) ==
  IF r \in DOMAIN b THEN [b EXCEPT ![r] = @ + 1]
  ELSE [x \in DOMAIN b \cup {r} |-> IF x = r THEN 1 ELSE b[x]]
BagCount(b, r) == IF r \in DOMAIN b THEN b[r] ELSE 0

(***************************************************************************)
(* Data of the runs: domains, wallets, users, auto-action rules, events.   *)
(***************************************************************************)
NftApe  == <<"n", "f", "t", ".", "a", "p", "e">>
Web3Ape == <<"w", "e", "b", "3", ".", "a", "p", "e">>
StarApe == <<"*", ".", "a", "p", "e">>
XApe    == <<"x", ".", "a", "p", "e">>
AcApe   == <<"a", "c", ".", "a", "p", "e">>
AbcApe  == <<"a", "b", "c", ".", "a", "p", "e">>
AStarCApe == <<"a", "*", "c", ".", "a", "p", "e">>
Web3Xyz == <<"w", "e", "b", "3", ".", "x", "y", "z">>

Undefined == <<"undefined">>
WalletA   == <<"0", "x", "a">>
WalletAUp == <<"0", "x", "A">>
WalletS   == <<"0", "x", "5">>

\* rows of the users table; monthlySpendLimit 0 is a row without a limit of its own
InitUsers ==
  [id \in {1, 2, 3, 4} |->
     CASE id = 1 -> [subscriptionTier |-> "premium", isActive |-> TRUE,
                     monthlySpendLimit |-> 80, walletAddress |-> WalletA]
       [] id = 2 -> [subscriptionTier |-> "free", isActive |-> TRUE,
                     monthlySpendLimit |-> 0, walletAddress |-> Undefined]
       [] id = 3 -> [subscriptionTier |-> "basic", isActive |-> FALSE,
                     monthlySpendLimit |-> 200, walletAddress |-> Undefined]
       [] id = 4 -> [subscriptionTier |-> "basic", isActive |-> TRUE,
                     monthlySpendLimit |-> 200, walletAddress |-> Undefined]]

\* conditions of an auto-action: a numeric key that is absent is 0 (the code
\* tests the keys for truthiness), an absent list is the empty sequence
NoConditions ==
  [maxPrice |-> 0, minPrice |-> 0, domainPatterns |-> <<>>, targetDomains |-> <<>>,
   excludeSellers |-> <<>>, daysBeforeExpiry |-> 0, minUrgency |-> NULL]

\* rows of the auto_actions table
InitAutoActions ==
  [id \in {1, 2, 3, 4} |->
     CASE id = 1 -> [userId |-> 1, type |-> "buy", maxAmount |-> 50, isActive |-> TRUE,
                     executionCount |-> 0,
                     conditions |-> [NoConditions EXCEPT !.maxPrice = 50,
                                                         !.domainPatterns = <<StarApe>>]]
       [] id = 2 -> [userId |-> 1, type |-> "buy", maxAmount |-> 300, isActive |-> TRUE,
                     executionCount |-> 0, conditions |-> NoConditions]
       [] id = 3 -> [userId |-> 1, type |-> "renew", maxAmount |-> 30, isActive |-> TRUE,
                     executionCount |-> 0,
                     conditions |-> [NoConditions EXCEPT !.daysBeforeExpiry = 7,
                                                         !.targetDomains = <<Web3Ape>>]]
       [] id = 4 -> [userId |-> 2, type |-> "buy", maxAmount |-> 300, isActive |-> TRUE,
                     executionCount |-> 0, conditions |-> NoConditions]]

\* events the contract monitor emits ('domainSale', 'domainExpiry'); price is
\* the number parseFloat(event.price) yields
\* parseFloat(undefined): the price of an event that carries no `price` key
NaN == -1
NoEvent ==
  [hash |-> NULL, type |-> NULL, domain |-> <<>>, price |-> 0, seller |-> Undefined,
   owner |-> Undefined, daysUntilExpiry |-> 0, urgency |-> NULL,
   from |-> Undefined, to |-> Undefined, newPrice |-> 0]
SaleEvents ==
  { [NoEvent EXCEPT !.hash = "t1", !.type = "listing", !.domain = NftApe,
                    !.price = 45, !.seller = WalletS],
    [NoEvent EXCEPT !.hash = "t2", !.type = "listing", !.domain = NftApe,
                    !.price = 250, !.seller = WalletS],
    [NoEvent EXCEPT !.hash = "t3", !.type = "sale", !.domain = NftApe,
                    !.price = 45, !.seller = WalletS] }
\* handleDomainPriceChanged emits {type: 'priceChange', domain, seller, oldPrice,
\* newPrice, blockData}: the payload has no `price`
PriceChangeEvents ==
  { [NoEvent EXCEPT !.hash = "t7", !.type = "priceChange", !.domain = NftApe,
                    !.price = NaN, !.newPrice = 250, !.seller = WalletS] }
ExpiryEvents ==
  { [NoEvent EXCEPT !.hash = "t4", !.type = "expiry", !.domain = Web3Ape,
                    !.owner = WalletAUp, !.daysUntilExpiry = 3, !.urgency = "high"] }

Handlers == {1, 2}

\* 60 * 60 * 1000 ms: the staleness threshold of cleanupStaleActions
StaleMs == 60 * 60 * 1000
\* user.monthlySpendLimit || 200
DefaultMonthlyLimit == 200

VARIABLES
  users,           \* users table: id -> row
  autoActions,     \* auto_actions table: id -> row
  activeActions,   \* AutoActionsService.activeActions: actionKey -> startTime
  monthlySpending, \* AutoActionsService.monthlySpending: <<userId, month>> -> amount
  autoActionLogs,  \* bag of the rows logAutoAction inserts into auto_action_logs
  emitted,         \* bag of the events the service emits
  submitted,       \* bag of the calls made to domainService.renewDomain / buyDomain
  now,             \* the clock, in steps of TickMs (Date.now() = now * TickMs)
  month,           \* the calendar month of the clock (YYYY-MM, as a number)
  delivered,       \* number of events delivered to the engine so far
  proc,            \* per handler slot: the running checkAuto* call
  last,            \* how the execute* call that returned last ended
  cleaned,         \* cleanupStaleActions so far: the time of its latest run (at)
                   \* and the keys its runs have removed (keys)
  faulted          \* a collaborator call has settled with an error

autoState == <<autoActions, activeActions, monthlySpending, autoActionLogs, emitted,
               submitted, now, month, delivered, proc, last, cleaned>>

(***************************************************************************)
(* Data and state of the Alert Dispatcher (AlertService).                  *)
(***************************************************************************)
PctApe == <<"%", ".", "a", "p", "e">>

\* conditions of an alert: an absent numeric key is 0, an absent list is <<>>
NoAlertConditions ==
  [daysThreshold |-> 0, minUrgency |-> NULL, maxPrice |-> 0, minPrice |-> 0,
   saleTypes |-> <<>>, domainPatterns |-> <<>>, direction |-> NULL,
   onlyUserInvolved |-> FALSE]

\* rows of the alerts table; an absent domain or domainPattern (NULL) is <<>>
InitAlerts ==
  [id \in 1..7 |->
     CASE id = 1 -> [userId |-> 1, type |-> "expiry", domain |-> Web3Ape,
                     domainPattern |-> <<>>, isActive |-> TRUE, triggerCount |-> 0,
                     conditions |-> [NoAlertConditions EXCEPT !.daysThreshold = 7]]
       [] id = 2 -> [userId |-> 2, type |-> "expiry", domain |-> Web3Ape,
                     domainPattern |-> <<>>, isActive |-> TRUE, triggerCount |-> 0,
                     conditions |-> NoAlertConditions]
       [] id = 3 -> [userId |-> 3, type |-> "expiry", domain |-> Web3Ape,
                     domainPattern |-> <<>>, isActive |-> TRUE, triggerCount |-> 0,
                     conditions |-> [NoAlertConditions EXCEPT !.minUrgency = "critical"]]
       [] id = 4 -> [userId |-> 1, type |-> "expiry", domain |-> Web3Ape,
                     domainPattern |-> PctApe, isActive |-> TRUE, triggerCount |-> 0,
                     conditions |-> [NoAlertConditions EXCEPT !.daysThreshold = 1]]
       [] id = 5 -> [userId |-> 2, type |-> "sale", domain |-> NftApe,
                     domainPattern |-> <<>>, isActive |-> TRUE, triggerCount |-> 0,
                     conditions |-> [NoAlertConditions EXCEPT !.maxPrice = 50]]
       [] id = 6 -> [userId |-> 4, type |-> "expiry", domain |-> Web3Ape,
                     domainPattern |-> <<>>, isActive |-> TRUE, triggerCount |-> 0,
                     conditions |-> [NoAlertConditions EXCEPT !.minUrgency = "high"]]
       [] id = 7 -> [userId |-> 1, type |-> "expiry", domain |-> <<>>,
                     domainPattern |-> StarApe, isActive |-> TRUE, triggerCount |-> 0,
                     conditions |-> NoAlertConditions]]

\* events the contract monitor hands to the Alert Dispatcher
AlertExpiryEvents ==
  ExpiryEvents \cup
  { [NoEvent EXCEPT !.hash = "t5", !.type = "expiry", !.domain = Web3Ape,
                    !.owner = WalletAUp, !.daysUntilExpiry = 1, !.urgency = "critical"] }
AlertSaleEvents == {e \in SaleEvents : e.hash = "t1"}
AlertTransferEvents ==
  { [NoEvent EXCEPT !.hash = "t6", !.type = "transfer", !.domain = Web3Ape,
                    !.from = WalletA, !.to = WalletS] }

AlertHandlers == {1, 2}

\* this.processedEvents.size > 1000
ProcessedEventsMax == 1000
\* entries.slice(0, -900)
ProcessedEventsKeep == 900

VARIABLES
  alerts,          \* alerts table: id -> row
  processedEvents, \* AlertService.processedEvents, in insertion order
  alertLogs,       \* bag of the rows logAlertToDb inserts into alert_logs
  alertsEmitted,   \* bag of the payloads of the 'alert' events the service emits
  adelivered,      \* number of events delivered to the Alert Dispatcher
  aproc,           \* alert handler slot -> the process*Event call running in it
  alast,           \* the process*Event call that returned most recently
  returnedCalls    \* eventId -> how the latest returned call for it ended

alertState == <<alerts, processedEvents, alertLogs, alertsEmitted, adelivered,
                aproc, alast, returnedCalls>>

ZeroCount == [r \in DOMAIN InitAlerts |-> 0]

\* a process*Event call: pc is the await it is suspended at; cur the rule of the
\* sendAlert in progress; after: how an earlier call for the same event id had
\* ended when this one was made ("none": no earlier call had returned).
\* Per rule and call: tried (sendAlert calls), emits ('alert' emissions),
\* handed (rows logged with status 'sent'), bumped (triggerCount increments)
AIdle ==
  [pc |-> "idle", ev |-> NoEvent, id |-> <<>>, queue |-> <<>>, cur |-> 0,
   after |-> "none", tried |-> ZeroCount, emits |-> ZeroCount, handed |-> ZeroCount,
   bumped |-> ZeroCount, storeError |-> FALSE]
NoCall ==
  [how |-> "none", ev |-> NoEvent, id |-> <<>>, after |-> "none", tried |-> ZeroCount,
   emits |-> ZeroCount, handed |-> ZeroCount, bumped |-> ZeroCount, storeError |-> FALSE]

AlertStateInit ==
  /\ alerts = InitAlerts
  /\ processedEvents = <<>>
  /\ alertLogs = EmptyBag
  /\ alertsEmitted = EmptyBag
  /\ adelivered = 0
  /\ aproc = [h \in AlertHandlers |-> AIdle]
  /\ alast = NoCall
  /\ returnedCalls = <<>>

\* calls of createAutoAction a run makes
MaxCreates == 3
CreateCalls == {1, 2}

VARIABLES
  creating,    \* slot -> the createAutoAction call running in it
  createLast,  \* the createAutoAction call that returned or threw most recently
  creates      \* createAutoAction calls made, and those that returned an id

crudState == <<creating, createLast, creates>>

\* a createAutoAction call: pc is the await it is suspended at
NotCreating == [pc |-> "idle", userId |-> 0, data |-> NULL]
NoCreate == [how |-> "none", userId |-> 0, id |-> 0, error |-> NULL, storeError |-> FALSE]

CrudStateInit ==
  /\ creating = [c \in CreateCalls |-> NotCreating]
  /\ createLast = NoCreate
  /\ creates = [made |-> 0, returned |-> 0]

\* times the cron schedule of one periodic job fires in a run
MaxCronTicks == 2
\* runs of one periodic job that can be in progress at once
JobSlots == {1, 2}

VARIABLES
  sweepRuns,   \* slot -> the checkExpiringDomains run in it
  digestRuns,  \* slot -> the sendDailySummaries run in it
  jobLog       \* cron ticks fired per job, and the sendDailySummaries runs completed

jobState == <<sweepRuns, digestRuns, jobLog>>

\* a checkExpiringDomains run: pc is the await it is suspended at, queue the
\* alerts the loop has still to take
NoSweep == [pc |-> "idle", queue |-> <<>>, checked |-> 0]
\* a sendDailySummaries run; seen: the process*Event call that had returned
\* most recently when the run was started
NoDigest == [pc |-> "idle", seen |-> NoCall]

JobStateInit ==
  /\ sweepRuns = [s \in JobSlots |-> NoSweep]
  /\ digestRuns = [s \in JobSlots |-> NoDigest]
  /\ jobLog = [expiryCheck |-> 0, dailySummary |-> 0, digestsDone |-> 0,
               digestSeen |-> NoCall]

\* raw chain callbacks the contract monitor is handed in a run
MaxCallbacks == 2

VARIABLES
  monitor      \* ContractMonitor: callbacks handled, 'domainExpiry' events emitted

MonitorStateInit == monitor = [callbacks |-> 0, emitted |-> <<>>]

\* requests to the routes of /api/alerts a run makes
MaxRequests == 3
\* requests that can be in progress at once
RequestSlots == {1, 2}

VARIABLES
  api          \* the /api/alerts router: slot -> the request handled in it (reqs),
               \* requests made, the alerts row id sqlite hands out next (seq),
               \* and the response sent last

requestState == <<api>>

\* a request: pc is the await its handler is suspended at; tier, count and
\* wasActive are what the handler has read from the store so far
\* a key the body does not have is NULL, or <<>> for domain and domainPattern
NoBody ==
  [type |-> NULL, domain |-> <<>>, domainPattern |-> <<>>, platform |-> NULL,
   isActive |-> NULL]
NoRequest ==
  [pc |-> "idle", route |-> NULL, userId |-> 0, alertId |-> 0, body |-> NoBody,
   tier |-> NULL, count |-> 0, wasActive |-> FALSE]
NoResponse == [route |-> NULL, userId |-> 0, status |-> 0]

RequestStateInit ==
  api = [reqs |-> [q \in RequestSlots |-> NoRequest], made |-> 0,
         seq |-> Cardinality(DOMAIN InitAlerts) + 1, last |-> NoResponse]

\* executions a run takes through the ledger operations
MaxLedgerCalls == 3
\* month ends the clock passes in a run
MaxMonths == 1

VARIABLES
  spendLog     \* the spending ledger seen from outside: the execution between its
               \* limit check and its commit (pending), the amounts really
               \* committed per <<userId, month>> (spent), executions started
               \* (calls), and whether the monthly cron tick is due (resetDue)

ledgerState == <<spendLog>>

NoPending == [pc |-> "idle", userId |-> 0, amount |-> 0]

LedgerStateInit ==
  spendLog = [pending |-> NoPending, spent |-> <<>>, calls |-> 0, resetDue |-> FALSE]

\* the state of the parts of the program an action leaves alone
VARIABLES
  stopped      \* the services whose stop() has been called

serviceState == <<stopped>>

ServiceStateInit == stopped = {}

otherState == <<crudState, jobState, monitor, requestState, ledgerState, serviceState>>

NowMs == now * TickMs

\* how an awaited collaborator call may settle: TRUE with its result, FALSE with
\* an error; a behaviour has at most one call that settles with an error
Outcomes == IF faulted THEN {TRUE} ELSE BOOLEAN
Fault(ok) == faulted' = (faulted \/ ~ok)

\* a handler slot: the checkAutoRenewal / checkAutoPurchase call running in it
\* (pc: the await it is suspended at) and, from key on, its current execute* call
Idle == [pc |-> "idle", kind |-> NULL, ev |-> NoEvent, queue |-> <<>>, act |-> 0,
         key |-> <<>>, amount |-> 0, lockStart |-> 0, err |-> NULL,
         checked |-> 0, limit |-> 0, committed |-> 0, counted |-> 0, submits |-> 0,
         storeError |-> FALSE]
\* how an execute* call ended: outcome none | skipped | failed | success,
\* lockHeld: whether activeActions still held its key when it returned
NoAttempt == [outcome |-> "none", act |-> 0, ev |-> NoEvent, key |-> <<>>, err |-> NULL,
              lockHeld |-> FALSE, amount |-> 0, checked |-> 0, limit |-> 0,
              committed |-> 0, counted |-> 0, submits |-> 0, storeError |-> FALSE]

(***************************************************************************)
(* Auto-Action Engine: pure parts.                                         *)
(***************************************************************************)
Range(f) == {f[i] : i \in DOMAIN f}

RECURSIVE SortedSeq(_)
\* the elements of a finite set of numbers in ascending order (rowid order)
SortedSeq(S) ==
  IF S = {} THEN <<>>
  ELSE LET m == CHOOSE x \in S : \A y \in S : x <= y IN <<m>> \o SortedSeq(S \ {m})

\* urgencyLevels[u] || 0
UrgencyLevel(u) ==
  CASE u = "low" -> 0 [] u = "medium" -> 1 [] u = "high" -> 2 [] u = "critical" -> 3
    [] OTHER -> 0

shouldExecuteAutoRenewal(conditions, event) ==
  IF conditions.daysBeforeExpiry # 0
     /\ event.daysUntilExpiry > conditions.daysBeforeExpiry
  THEN FALSE
  ELSE IF conditions.minUrgency # NULL
          /\ UrgencyLevel(event.urgency) < UrgencyLevel(conditions.minUrgency)
  THEN FALSE
  ELSE TRUE

RegexValid(src) == RegexAtoms(src, <<>>) # "SyntaxError"

RECURSIVE SomePatternMatches(_, _)
\* conditions.domainPatterns.some(p => new RegExp(p.replace(/\*/g, '.*'), 'i').test(d)):
\* "true", "false", or "throws" when a pattern reached before a match does not compile
SomePatternMatches(patterns, d) ==
  IF patterns = <<>> THEN "false"
  ELSE LET src == ReplaceAll(Head(patterns), "*", <<".", "*">>) IN
       IF ~RegexValid(src) THEN "throws"
       ELSE IF RegexTest(src, d, FALSE) THEN "true"
       ELSE SomePatternMatches(Tail(patterns), d)

\* the same test without the price limits
shouldExecuteAutoPurchase_anyPrice(action, event) ==
  LET c == action.conditions IN
  IF c.domainPatterns # <<>> /\ SomePatternMatches(c.domainPatterns, event.domain) # "true"
  THEN SomePatternMatches(c.domainPatterns, event.domain)
  ELSE IF c.targetDomains # <<>> /\ event.domain \notin Range(c.targetDomains) THEN "false"
  ELSE IF c.excludeSellers # <<>> /\ LowerStr(event.seller) \in Range(c.excludeSellers)
       THEN "false"
  ELSE "true"

\* "true" / "false" / "throws"
shouldExecuteAutoPurchase(action, event) ==
  LET c == action.conditions
      priceNum == event.price
  IN
  IF priceNum > action.maxAmount THEN "false"
  ELSE IF c.maxPrice # 0 /\ priceNum > c.maxPrice THEN "false"
  ELSE IF c.minPrice # 0 /\ priceNum < c.minPrice THEN "false"
  ELSE IF c.domainPatterns # <<>> /\ SomePatternMatches(c.domainPatterns, event.domain) # "true"
       THEN SomePatternMatches(c.domainPatterns, event.domain)
  ELSE IF c.targetDomains # <<>> /\ event.domain \notin Range(c.targetDomains) THEN "false"
  ELSE IF c.excludeSellers # <<>> /\ LowerStr(event.seller) \in Range(c.excludeSellers)
       THEN "false"
  ELSE "true"

\* getAutoActions(criteria): the ids of the rows the query returns, in rowid order;
\* the JOIN drops the rules whose user row is missing
getAutoActions(type, domain, rules, usrs) ==
  SortedSeq({id \in DOMAIN rules :
      /\ rules[id].type = type
      /\ rules[id].isActive
      /\ rules[id].userId \in DOMAIN usrs
      /\ (domain # <<>> =>
            \/ \E i \in DOMAIN rules[id].conditions.targetDomains :
                 Contains(rules[id].conditions.targetDomains[i], domain)
            \/ \E i \in DOMAIN rules[id].conditions.domainPatterns :
                 Contains(rules[id].conditions.domainPatterns[i], domain))})

\* getUserSigner(user): always throws ('Wallet integration not implemented')
getUserSigner_returns(user) == [ok |-> TRUE, error |-> NULL]
getUserSigner(user) == [ok |-> FALSE, error |-> "Wallet integration not implemented"]

\* the ledger key `${userId}_${currentMonth}`
SpendingKey(userId, m) == <<userId, m>>
\* this.monthlySpending.get(key) || 0
CurrentSpending(ledger, userId, m) ==
  IF SpendingKey(userId, m) \in DOMAIN ledger THEN ledger[SpendingKey(userId, m)] ELSE 0
\* user.monthlySpendLimit || 200
MonthlyLimit(user) ==
  IF user.monthlySpendLimit # 0 THEN user.monthlySpendLimit ELSE DefaultMonthlyLimit

\* checkSpendingLimits: the comparison made once getUserById has settled;
\* a rejected getUserById (or a missing row) is caught and gives false
checkSpendingLimits_noLimit(usrs, ledger, userId, m, amount, dbOk) == TRUE
checkSpendingLimits(usrs, ledger, userId, m, amount, dbOk) ==
  IF ~dbOk \/ userId \notin DOMAIN usrs THEN FALSE
  ELSE CurrentSpending(ledger, userId, m) + amount <= MonthlyLimit(usrs[userId])

\* trackSpending: monthlySpending.set(key, currentSpending + amount)
trackSpending(ledger, userId, m, amount) ==
  LET k == SpendingKey(userId, m) IN
  [x \in DOMAIN ledger \cup {k} |-> IF x = k THEN CurrentSpending(ledger, userId, m) + amount
                                    ELSE ledger[x]]

\* actionKey: `renewal_${action.id}_${event.domain}` / `purchase_...`
ActionKey(kind, actionId, domain) ==
  <<(IF kind = "renew" THEN "renewal" ELSE "purchase"), actionId, domain>>

\* this.activeActions.has(actionKey)
LockHeld_never(locks, key) == FALSE
LockHeld(locks, key) == key \in DOMAIN locks

\* this.activeActions.set(actionKey, {startTime: Date.now(), ...})
SetLock(locks, key, t) == [x \in DOMAIN locks \cup {key} |-> IF x = key THEN t ELSE locks[x]]

\* what the finally block would do if actionKey were in scope
FinallyRelease_deletes(locks, key) == [k \in DOMAIN locks \ {key} |-> locks[k]]

\* finally { this.activeActions.delete(actionKey) }: actionKey is a const of the
\* try block and is not in scope in the finally block, so evaluating it throws a
\* ReferenceError before delete is called: the map is left as it is (and the
\* execute* call rejects, which the caller's per-rule catch logs)
FinallyRelease(locks, key) == locks

\* what the finally block would do if actionKey were in scope
\* cleanupStaleActions: the entries that stay (startTime < staleThreshold go)
cleanupKeeps_twoHours(locks, t) == {k \in DOMAIN locks : ~(locks[k] < t - 2 * StaleMs)}
cleanupKeeps(locks, t) == {k \in DOMAIN locks : ~(locks[k] < t - StaleMs)}

(***************************************************************************)
(* Auto-Action Engine: the handlers.                                       *)
(***************************************************************************)
ExecPcs == {"checkLimits", "getSignerUser", "submit", "trackSpending", "logSuccess",
            "updateCount", "logFailed"}

\* the for-loop of checkAuto*: on to the next rule (await getUserById) or return
LoopNext(p) ==
  IF p.queue = <<>> THEN Idle
  ELSE [Idle EXCEPT !.pc = "getUser", !.kind = p.kind, !.ev = p.ev,
                    !.queue = Tail(p.queue), !.act = Head(p.queue)]

\* the catch of the loop body of checkAuto* (an error thrown by getUserById, by
\* shouldExecute* or out of execute*): it is logged and the loop goes on
PerRuleCatch_propagates(p) == Idle
PerRuleCatch(p) == LoopNext(p)

\* the record of an execute* call that returns now
Finish(p, outcome, locksAfter) ==
  [outcome |-> outcome, act |-> p.act, ev |-> p.ev, key |-> p.key, err |-> p.err,
   lockHeld |-> LockHeld(locksAfter, p.key), amount |-> p.amount, checked |-> p.checked,
   limit |-> p.limit, committed |-> p.committed, counted |-> p.counted,
   submits |-> p.submits, storeError |-> p.storeError]

LogRow(p, amount, status, msg) ==
  [actionId |-> p.act, userId |-> autoActions[p.act].userId, domain |-> p.ev.domain,
   amount |-> amount, status |-> status, errorMessage |-> msg]

\* contractMonitor.on('domainSale'): checkAutoPurchase(event) up to its first await
DeliverSale(h, e) ==
  /\ proc[h].pc = "idle"
  /\ \A g \in Handlers : g < h => proc[g].pc # "idle"
  /\ delivered < MaxDeliveries
  /\ delivered' = delivered + 1
  /\ proc' = [proc EXCEPT ![h] =
                IF e.type # "listing" THEN Idle
                ELSE [Idle EXCEPT !.pc = "getAutoActions", !.kind = "buy", !.ev = e]]
  /\ UNCHANGED <<users, otherState, alertState, autoActions, activeActions, monthlySpending, autoActionLogs,
                 emitted, submitted, now, month, last, cleaned, faulted>>

\* contractMonitor.on('domainExpiry'): checkAutoRenewal(event) up to its first await
DeliverExpiry(h, e) ==
  /\ proc[h].pc = "idle"
  /\ \A g \in Handlers : g < h => proc[g].pc # "idle"
  /\ delivered < MaxDeliveries
  /\ delivered' = delivered + 1
  /\ proc' = [proc EXCEPT ![h] =
                [Idle EXCEPT !.pc = "getAutoActions", !.kind = "renew", !.ev = e]]
  /\ UNCHANGED <<users, otherState, alertState, autoActions, activeActions, monthlySpending, autoActionLogs,
                 emitted, submitted, now, month, last, cleaned, faulted>>

\* await this.getAutoActions(...) settles (a database error gives [])
GetAutoActionsSettled(h) ==
  /\ proc[h].pc = "getAutoActions"
  /\ \E dbOk \in Outcomes :
       LET p == proc[h]
           rows == IF dbOk
                   THEN getAutoActions(p.kind, IF p.kind = "renew" THEN p.ev.domain ELSE <<>>,
                                       autoActions, users)
                   ELSE <<>>
       IN /\ Fault(dbOk)
          /\ proc' = [proc EXCEPT ![h] = LoopNext([p EXCEPT !.queue = rows])]
  /\ UNCHANGED <<users, otherState, alertState, autoActions, activeActions, monthlySpending, autoActionLogs,
                 emitted, submitted, now, month, delivered, last, cleaned>>

\* the checks of the loop body once getUserById has settled: the rule is
\* handed to execute* only if the owner is premium, owns the expiring domain
\* (renewals) and shouldExecute* returns true; a throw is caught per rule
Qualifies(p, dbOk) ==
  LET a == autoActions[p.act]
      uid == a.userId
  IN /\ dbOk
     /\ uid \in DOMAIN users
     /\ users[uid].subscriptionTier = "premium"
     /\ p.kind = "renew" =>
          LowerStr(users[uid].walletAddress) = LowerStr(p.ev.owner)
     /\ IF p.kind = "renew" THEN shouldExecuteAutoRenewal(a.conditions, p.ev)
        ELSE shouldExecuteAutoPurchase(a, p.ev) = "true"

\* await getUserById(action.userId) of the loop settles: the checks of the loop
\* body, and execute* up to its first await
GetUserSettled(h) ==
  /\ proc[h].pc = "getUser"
  /\ \E dbOk \in Outcomes :
       LET p == proc[h]
           a == autoActions[p.act]
           key == ActionKey(p.kind, p.act, p.ev.domain)
       IN
       /\ Fault(dbOk)
       /\ IF ~dbOk
          THEN \* getUserById threw
               /\ proc' = [proc EXCEPT ![h] = PerRuleCatch(p)]
               /\ UNCHANGED <<activeActions, last>>
          ELSE IF ~Qualifies(p, dbOk)
          THEN /\ proc' = [proc EXCEPT ![h] = LoopNext(p)]
               /\ UNCHANGED <<activeActions, last>>
          ELSE IF LockHeld(activeActions, key)
          THEN \* return inside the try: the finally block runs, and what it
               \* throws reaches the catch of the loop body
               /\ activeActions' = FinallyRelease(activeActions, key)
               /\ last' = Finish([p EXCEPT !.key = key], "skipped", activeActions')
               /\ proc' = [proc EXCEPT ![h] = PerRuleCatch(p)]
          ELSE /\ activeActions' = SetLock(activeActions, key, NowMs)
               /\ proc' = [proc EXCEPT ![h] =
                             [p EXCEPT !.pc = "checkLimits", !.key = key,
                                       !.amount = IF p.kind = "buy" THEN p.ev.price
                                                  ELSE a.maxAmount,
                                       !.lockStart = NowMs]]
               /\ UNCHANGED last
  /\ UNCHANGED <<users, otherState, alertState, autoActions, monthlySpending, autoActionLogs, emitted, submitted,
                 now, month, delivered, cleaned>>

\* the catch block of execute*: logAutoAction({status: 'failed', amount: 0, ...})
Catch_silent(h, p, msg) ==
  /\ proc' = [proc EXCEPT ![h] = [p EXCEPT !.pc = "logFailed", !.err = msg]]
  /\ UNCHANGED autoActionLogs
Catch(h, p, msg) ==
  /\ autoActionLogs' = BagAdd(autoActionLogs, LogRow(p, 0, "failed", msg))
  /\ proc' = [proc EXCEPT ![h] = [p EXCEPT !.pc = "logFailed", !.err = msg]]

\* await this.checkSpendingLimits(...) settles
CheckSpendingLimitsSettled(h) ==
  /\ proc[h].pc = "checkLimits"
  /\ \E dbOk \in Outcomes :
       LET p == proc[h]
           uid == autoActions[p.act].userId
           p1 == [p EXCEPT !.checked = CurrentSpending(monthlySpending, uid, month),
                           !.limit = IF uid \in DOMAIN users THEN MonthlyLimit(users[uid])
                                     ELSE 0,
                           !.storeError = ~dbOk]
       IN
       /\ Fault(dbOk)
       /\ IF checkSpendingLimits(users, monthlySpending, uid, month, p.amount, dbOk)
          THEN /\ proc' = [proc EXCEPT ![h] = [p1 EXCEPT !.pc = "getSignerUser"]]
               /\ UNCHANGED autoActionLogs
          ELSE Catch(h, p1, "Monthly spending limit exceeded")
  /\ UNCHANGED <<users, otherState, alertState, autoActions, activeActions, monthlySpending, emitted, submitted,
                 now, month, delivered, last, cleaned>>

\* await getUserById(action.userId) of execute* settles, then getUserSigner(user)
\* and the call of domainService.renewDomain / buyDomain
SignerUserSettled(h) ==
  /\ proc[h].pc = "getSignerUser"
  /\ \E dbOk \in Outcomes :
       LET p == proc[h]
           uid == autoActions[p.act].userId
           signer == getUserSigner(users[uid])
       IN
       /\ Fault(dbOk)
       /\ IF ~dbOk
          THEN /\ Catch(h, [p EXCEPT !.storeError = TRUE], "database error")
               /\ UNCHANGED submitted
          ELSE IF ~signer.ok
          THEN /\ Catch(h, p, signer.error)
               /\ UNCHANGED submitted
          ELSE /\ submitted' = BagAdd(submitted, [key |-> p.key, ev |-> p.ev.hash])
               /\ proc' = [proc EXCEPT ![h] = [p EXCEPT !.pc = "submit", !.submits = @ + 1]]
               /\ UNCHANGED autoActionLogs
  /\ UNCHANGED <<users, otherState, alertState, autoActions, activeActions, monthlySpending, emitted,
                 now, month, delivered, last, cleaned>>

\* the awaits of execute* after the submission was made, and the await of the
\* catch block: each settles and the code runs on to the next await or to the
\* finally block. (With getUserSigner as it is only "logFailed" is ever reached.)
ExecutionContinues(h) ==
  /\ proc[h].pc \in {"submit", "trackSpending", "logSuccess", "updateCount", "logFailed"}
  /\ LET p == proc[h]
         uid == autoActions[p.act].userId
     IN
     CASE p.pc = "submit" ->
            \* renewDomain / buyDomain settles; trackSpending up to its await
            \E txOk \in Outcomes :
              /\ Fault(txOk)
              /\ IF txOk
                 THEN /\ monthlySpending' =
                           trackSpending(monthlySpending, uid, month, p.amount)
                      /\ proc' = [proc EXCEPT ![h] =
                                    [p EXCEPT !.pc = "trackSpending", !.committed = p.amount]]
                      /\ UNCHANGED <<autoActions, activeActions, autoActionLogs, emitted,
                                     last>>
                 ELSE /\ Catch(h, [p EXCEPT !.storeError = TRUE], "transaction failed")
                      /\ UNCHANGED <<autoActions, activeActions, monthlySpending, emitted,
                                     last>>
       [] p.pc = "trackSpending" ->
            \* the transaction_logs insert settles; logAutoAction({status: 'success'})
            /\ autoActionLogs' = BagAdd(autoActionLogs, LogRow(p, p.amount, "success", NULL))
            /\ proc' = [proc EXCEPT ![h] = [p EXCEPT !.pc = "logSuccess"]]
            /\ UNCHANGED <<autoActions, activeActions, monthlySpending, emitted, last,
                           faulted>>
       [] p.pc = "logSuccess" ->
            \* updateActionExecutionCount is called
            /\ proc' = [proc EXCEPT ![h] = [p EXCEPT !.pc = "updateCount"]]
            /\ UNCHANGED <<autoActions, activeActions, monthlySpending, autoActionLogs,
                           emitted, last, faulted>>
       [] p.pc = "updateCount" ->
            \* the UPDATE settles; emit('autoActionExecuted'); finally
            /\ autoActions' = [autoActions EXCEPT ![p.act].executionCount = @ + 1]
            /\ emitted' = BagAdd(emitted, [name |-> "autoActionExecuted", userId |-> uid,
                                           domain |-> p.ev.domain, error |-> NULL])
            /\ activeActions' = FinallyRelease(activeActions, p.key)
            /\ last' = Finish([p EXCEPT !.counted = 1], "success", activeActions')
            /\ proc' = [proc EXCEPT ![h] = PerRuleCatch(p)]
            /\ UNCHANGED <<monthlySpending, autoActionLogs, faulted>>
       [] p.pc = "logFailed" ->
            \* the failed-log insert settles; emit('autoActionFailed'); finally
            /\ emitted' = BagAdd(emitted, [name |-> "autoActionFailed", userId |-> uid,
                                           domain |-> p.ev.domain, error |-> p.err])
            /\ activeActions' = FinallyRelease(activeActions, p.key)
            /\ last' = Finish(p, "failed", activeActions')
            /\ proc' = [proc EXCEPT ![h] = PerRuleCatch(p)]
            /\ UNCHANGED <<autoActions, monthlySpending, autoActionLogs, faulted>>
  /\ UNCHANGED <<users, otherState, alertState, submitted, now, month, delivered, cleaned>>

(***************************************************************************)
(* Auto-Action Engine: the cron jobs and the clock.                        *)
(***************************************************************************)
\* cron '0 * * * *'
cleanupStaleActions ==
  /\ activeActions' = [k \in cleanupKeeps(activeActions, NowMs) |-> activeActions[k]]
  /\ cleaned' = [at |-> NowMs,
                  keys |-> cleaned.keys \cup (DOMAIN activeActions \ DOMAIN activeActions')]
  /\ UNCHANGED <<users, otherState, alertState, autoActions, monthlySpending, autoActionLogs, emitted, submitted,
                 now, month, delivered, proc, last, faulted>>

\* cron '0 0 1 * *': this.monthlySpending.clear()
resetMonthlyLimits ==
  /\ monthlySpending' = <<>>
  /\ UNCHANGED <<users, otherState, alertState, autoActions, activeActions, autoActionLogs, emitted, submitted,
                 now, month, delivered, proc, last, cleaned, faulted>>

\* time passes
Tick ==
  /\ now < MaxTicks
  /\ now' = now + 1
  /\ UNCHANGED <<users, otherState, alertState, autoActions, activeActions, monthlySpending, autoActionLogs,
                 emitted, submitted, month, delivered, proc, last, cleaned, faulted>>

(***************************************************************************)
(* The spending ledger: one execution at a time between checkSpendingLimits *)
(* and trackSpending, the end of the month and the monthly cron tick. The  *)
(* execution is taken from the limit check to the commit as execute* is    *)
(* written (check, signer, submission, trackSpending), with a signer and a *)
(* submission that answer.                                                 *)
(***************************************************************************)
\* the owners and amounts of the executions
LedgerUsers == {1, 4}
LedgerAmounts == {30, 45}

\* execute*: await this.checkSpendingLimits(userId, amount) settles; the
\* execution goes on to the signer and the submission when it returns true
SpendingCheckSettled(userId, amount) ==
  /\ spendLog.pending.pc = "idle"
  /\ spendLog.calls < MaxLedgerCalls
  /\ spendLog' =
       [spendLog EXCEPT
          !.calls = @ + 1,
          !.pending = IF checkSpendingLimits(users, monthlySpending, userId, month,
                                             amount, TRUE)
                      THEN [pc |-> "submitted", userId |-> userId, amount |-> amount]
                      ELSE NoPending]
  /\ UNCHANGED <<users, serviceState, faulted, autoState, alertState, crudState, jobState, monitor,
                 requestState>>

\* execute*: the submission settles with success; trackSpending(userId, amount)
\* adds the amount under the key of the month current now
SubmissionSettled ==
  /\ spendLog.pending.pc = "submitted"
  /\ LET p == spendLog.pending IN
     /\ monthlySpending' = trackSpending(monthlySpending, p.userId, month, p.amount)
     /\ spendLog' = [spendLog EXCEPT
                       !.pending = NoPending,
                       !.spent = trackSpending(@, p.userId, month, p.amount)]
  /\ UNCHANGED <<users, serviceState, faulted, alertState, crudState, jobState, monitor, requestState,
                 autoActions, activeActions, autoActionLogs, emitted, submitted, now,
                 month, delivered, proc, last, cleaned>>

\* the calendar month ends: the cron expression '0 0 1 * *' matches
MonthEnds ==
  /\ month < MaxMonths
  /\ month' = month + 1
  /\ spendLog' = [spendLog EXCEPT !.resetDue = TRUE]
  /\ UNCHANGED <<users, serviceState, faulted, alertState, crudState, jobState, monitor, requestState,
                 autoActions, activeActions, monthlySpending, autoActionLogs, emitted,
                 submitted, now, delivered, proc, last, cleaned>>

\* the callback of cron.schedule('0 0 1 * *') runs: resetMonthlyLimits()
monthlyResetJob ==
  /\ spendLog.resetDue
  /\ monthlySpending' = <<>>
  /\ spendLog' = [spendLog EXCEPT !.resetDue = FALSE]
  /\ UNCHANGED <<users, serviceState, faulted, alertState, crudState, jobState, monitor, requestState,
                 autoActions, activeActions, autoActionLogs, emitted, submitted, now,
                 month, delivered, proc, last, cleaned>>

(***************************************************************************)
(* Auto-Action Engine: createAutoAction.                                   *)
(***************************************************************************)
\* the userId arguments: users 1..4 and 5, for which there is no row
CreateUserIds == {1, 2, 3, 4, 5}
\* the actionData arguments
CreateData ==
  { [type |-> "renew", maxAmount |-> 30,
     conditions |-> [NoConditions EXCEPT !.targetDomains = <<Web3Ape>>]],
    [type |-> "buy", maxAmount |-> 50, conditions |-> NoConditions] }

\* !user || user.subscriptionTier !== 'premium', negated
HoldsPremium_anyone(usrs, userId) == TRUE
HoldsPremium(usrs, userId) ==
  userId \in DOMAIN usrs /\ usrs[userId].subscriptionTier = "premium"

\* result.lastID of the INSERT: id is INTEGER PRIMARY KEY AUTOINCREMENT
LastID(rules) ==
  1 + (CHOOSE m \in DOMAIN rules : \A id \in DOMAIN rules : id <= m)

\* the row the INSERT stores: isActive defaults to 1, executionCount to 0
NewRow(userId, data) ==
  [userId |-> userId, type |-> data.type, maxAmount |-> data.maxAmount,
   isActive |-> TRUE, executionCount |-> 0, conditions |-> data.conditions]

\* the catch of createAutoAction: the error is logged and thrown again
CreateThrows(c, msg, storeError) ==
  /\ creating' = [creating EXCEPT ![c] = NotCreating]
  /\ createLast' = [how |-> "threw", userId |-> creating[c].userId, id |-> 0,
                    error |-> msg, storeError |-> storeError]

\* createAutoAction(userId, actionData) up to its await of getUserById
createAutoAction(c, userId, data) ==
  /\ creating[c].pc = "idle"
  /\ \A d \in CreateCalls : d < c => creating[d].pc # "idle"
  /\ creates.made < MaxCreates
  /\ creates' = [creates EXCEPT !.made = @ + 1]
  /\ creating' = [creating EXCEPT ![c] = [pc |-> "getUser", userId |-> userId,
                                          data |-> data]]
  /\ UNCHANGED <<users, serviceState, ledgerState, requestState, faulted, autoState, alertState, jobState, monitor, createLast>>

\* await getUserById(userId) settles: the premium check
CreateUserSettled(c) ==
  /\ creating[c].pc = "getUser"
  /\ \E dbOk \in Outcomes :
       /\ Fault(dbOk)
       /\ IF ~dbOk THEN CreateThrows(c, "database error", TRUE)
          ELSE IF ~HoldsPremium(users, creating[c].userId)
          THEN CreateThrows(c, "Premium subscription required for auto-actions", FALSE)
          ELSE /\ creating' = [creating EXCEPT ![c].pc = "insert"]
               /\ UNCHANGED createLast
  /\ UNCHANGED <<users, serviceState, ledgerState, requestState, autoState, alertState, jobState, monitor, creates>>

\* await database.run(INSERT INTO auto_actions ...) settles
CreateInsertSettled(c) ==
  /\ creating[c].pc = "insert"
  /\ \E dbOk \in Outcomes :
       /\ Fault(dbOk)
       /\ IF dbOk
          THEN LET id == LastID(autoActions) IN
               /\ autoActions' = [r \in DOMAIN autoActions \cup {id} |->
                                    IF r = id THEN NewRow(creating[c].userId, creating[c].data)
                                    ELSE autoActions[r]]
               /\ creating' = [creating EXCEPT ![c] = NotCreating]
               /\ createLast' = [how |-> "returned", userId |-> creating[c].userId,
                                 id |-> id, error |-> NULL, storeError |-> FALSE]
               /\ creates' = [creates EXCEPT !.returned = @ + 1]
          ELSE /\ CreateThrows(c, "database error", TRUE)
               /\ UNCHANGED <<autoActions, creates>>
  /\ UNCHANGED <<users, serviceState, ledgerState, requestState, alertState, jobState, monitor, activeActions, monthlySpending,
                 autoActionLogs, emitted, submitted, now, month, delivered, proc, last,
                 cleaned>>

AutoStateInit ==
  /\ autoActions = InitAutoActions
  /\ activeActions = <<>>
  /\ monthlySpending = <<>>
  /\ autoActionLogs = EmptyBag
  /\ emitted = EmptyBag
  /\ submitted = EmptyBag
  /\ now = 0
  /\ month = 0
  /\ delivered = 0
  /\ proc = [h \in Handlers |-> Idle]
  /\ last = NoAttempt
  /\ cleaned = [at |-> 0, keys |-> {}]

vars == <<users, faulted, autoState, alertState, otherState>>

\* the state after construction; the Alert Dispatcher is left alone
AutoInit ==
  /\ users = InitUsers
  /\ faulted = FALSE
  /\ AutoStateInit
  /\ AlertStateInit
  /\ CrudStateInit
  /\ JobStateInit
  /\ MonitorStateInit
  /\ RequestStateInit
  /\ LedgerStateInit
  /\ ServiceStateInit

\* the listeners of setupEventListeners and the awaits of the calls they make
EventHandling ==
  \/ \E h \in Handlers, e \in SaleEvents : DeliverSale(h, e)
  \/ \E h \in Handlers, e \in ExpiryEvents : DeliverExpiry(h, e)
  \/ \E h \in Handlers : GetAutoActionsSettled(h)
  \/ \E h \in Handlers : GetUserSettled(h)
  \/ \E h \in Handlers : CheckSpendingLimitsSettled(h)
  \/ \E h \in Handlers : SignerUserSettled(h)
  \/ \E h \in Handlers : ExecutionContinues(h)

AutoNext ==
  \/ EventHandling
  \/ cleanupStaleActions
  \/ resetMonthlyLimits
  \/ Tick

SpecAuto == AutoInit /\ [][AutoNext]_vars

\* the callers of createAutoAction
CreateNext ==
  \/ \E c \in CreateCalls, u \in CreateUserIds, d \in CreateData : createAutoAction(c, u, d)
  \/ \E c \in CreateCalls : CreateUserSettled(c)
  \/ \E c \in CreateCalls : CreateInsertSettled(c)

SpecCreate == AutoInit /\ [][CreateNext]_vars

\* the spending ledger under executions, month ends and the monthly reset
LedgerNext ==
  \/ \E u \in LedgerUsers, a \in LedgerAmounts : SpendingCheckSettled(u, a)
  \/ SubmissionSettled
  \/ MonthEnds
  \/ monthlyResetJob

SpecLedger == AutoInit /\ [][LedgerNext]_vars

\* checkAutoRenewal under the wallets a users row can hold (walletAddress TEXT,
\* nullable: a NULL column makes user.walletAddress?.toLowerCase() undefined)
\* and the owners the 'domainExpiry' payload can carry (handleDomainExpiring
\* forwards its owner argument unexamined)
RenewalWallets == {WalletA, Undefined}
RenewalOwners == {WalletAUp, WalletS, Undefined}
RenewalEvents ==
  { [NoEvent EXCEPT !.hash = "t4", !.type = "expiry", !.domain = Web3Ape,
                    !.owner = o, !.daysUntilExpiry = 3, !.urgency = "high"] :
      o \in RenewalOwners }

RenewalInit ==
  /\ users \in {[InitUsers EXCEPT ![1].walletAddress = w] : w \in RenewalWallets}
  /\ faulted = FALSE
  /\ AutoStateInit
  /\ AlertStateInit
  /\ CrudStateInit
  /\ JobStateInit
  /\ MonitorStateInit
  /\ RequestStateInit
  /\ LedgerStateInit
  /\ ServiceStateInit

\* this.contractMonitor.on('domainExpiry', event => this.checkAutoRenewal(event))
checkAutoRenewal(h, e) ==
  /\ e.type = "expiry"
  /\ DeliverExpiry(h, e)

RenewalNext ==
  \/ \E h \in Handlers, e \in RenewalEvents : checkAutoRenewal(h, e)
  \/ \E h \in Handlers : GetAutoActionsSettled(h)
  \/ \E h \in Handlers : GetUserSettled(h)
  \/ \E h \in Handlers : CheckSpendingLimitsSettled(h)
  \/ \E h \in Handlers : SignerUserSettled(h)
  \/ \E h \in Handlers : ExecutionContinues(h)

SpecRenewal == RenewalInit /\ [][RenewalNext]_vars

\* checkAutoPurchase under every kind of 'domainSale' event and buy rules with
\* a lower and an upper price bound
PurchaseEvents == SaleEvents \cup PriceChangeEvents
PurchaseRules ==
  [id \in 1..5 |->
     IF id \in DOMAIN InitAutoActions THEN InitAutoActions[id]
     ELSE [userId |-> 1, type |-> "buy", maxAmount |-> 300, isActive |-> TRUE,
           executionCount |-> 0,
           conditions |-> [NoConditions EXCEPT !.minPrice = 100]]]

PurchaseInit ==
  /\ users = InitUsers
  /\ faulted = FALSE
  /\ autoActions = PurchaseRules
  /\ activeActions = <<>>
  /\ monthlySpending = <<>>
  /\ autoActionLogs = EmptyBag
  /\ emitted = EmptyBag
  /\ submitted = EmptyBag
  /\ now = 0
  /\ month = 0
  /\ delivered = 0
  /\ proc = [h \in Handlers |-> Idle]
  /\ last = NoAttempt
  /\ cleaned = [at |-> 0, keys |-> {}]
  /\ AlertStateInit
  /\ CrudStateInit
  /\ JobStateInit
  /\ MonitorStateInit
  /\ RequestStateInit
  /\ LedgerStateInit
  /\ ServiceStateInit

\* this.contractMonitor.on('domainSale', event => this.checkAutoPurchase(event))
checkAutoPurchase(h, e) ==
  /\ e.type \in {"listing", "sale", "priceChange"}
  /\ DeliverSale(h, e)

PurchaseNext ==
  \/ \E h \in Handlers, e \in PurchaseEvents : checkAutoPurchase(h, e)
  \/ \E h \in Handlers : GetAutoActionsSettled(h)
  \/ \E h \in Handlers : GetUserSettled(h)
  \/ \E h \in Handlers : CheckSpendingLimitsSettled(h)
  \/ \E h \in Handlers : SignerUserSettled(h)
  \/ \E h \in Handlers : ExecutionContinues(h)

SpecPurchase == PurchaseInit /\ [][PurchaseNext]_vars

(***************************************************************************)
(* Auto-Action Engine: properties.                                         *)
(***************************************************************************)
Returned == last.outcome \in {"failed", "success"}
Distance(a, b) == IF a < b THEN b - a ELSE a - b

C3_LockReleased == Returned => ~last.lockHeld

\* C4 (spending-cap rejection): an attempt whose amount added to the owner's
\* committed total exceeds the cap ends in the catch block with the
\* spending-limit error, without a submission, with a failed row logged and
\* the ledger unchanged; so does the comparison for cap 200, committed 150,
\* amount 60, while amount 40 passes.
C4_Rejects(p) ==
  (p.checked + p.amount > p.limit) =>
     /\ p.err = "Monthly spending limit exceeded"
     /\ p.submits = 0
     /\ p.committed = 0
     /\ BagCount(autoActionLogs, LogRow(p, 0, "failed", p.err)) >= 1
     /\ BagCount(autoActionLogs, LogRow(p, p.amount, "success", NULL)) = 0
     /\ CurrentSpending(monthlySpending, autoActions[p.act].userId, month) = p.checked
C5_SuccessfulExecution ==
  (Returned /\ ~last.storeError /\ last.checked + last.amount <= last.limit)
  => /\ last.outcome = "success"
     /\ last.committed = last.amount
     /\ last.counted = 1

\* C7 (stale-lock recovery): a run of cleanupStaleActions removes every lock
\* whose start time is more than one hour in the past (no lock that was stale
\* at the latest run is still there), and an attempt on a qualifying event
\* that finds no lock for its key takes the lock and enters the execution
\* steps (it is skipped only if the lock is present).
C7_StaleLockRecovery ==
  /\ [](\A k \in DOMAIN activeActions : ~(activeActions[k] + StaleMs < cleaned.at))
  /\ [][ \A h \in Handlers :
           LET p == proc[h]
               key == ActionKey(p.kind, p.act, p.ev.domain)
           IN (p.pc = "getUser" /\ proc'[h] # p /\ Qualifies(p, faulted' = faulted)
               /\ key \notin DOMAIN activeActions)
              => /\ proc'[h].pc = "checkLimits"
                 /\ proc'[h].key = key
                 /\ key \in DOMAIN activeActions'
                 /\ activeActions'[key] = NowMs
                 /\ last' = last
       ]_vars

\* a key that cleanupStaleActions removed is locked again by an attempt that is
\* inside the execution steps
C7_Witness ==
  \E h \in Handlers :
    /\ proc[h].pc \in ExecPcs
    /\ proc[h].key \in cleaned.keys
    /\ proc[h].lockStart > StaleMs
    /\ LockHeld(activeActions, proc[h].key)

(***************************************************************************)
(* Auto-Action Engine: entitlement, creation, isolation.                   *)
(***************************************************************************)
\* the owner of the rule handler slot h is at holds the premium tier
OwnerIsPremium(h) ==
  LET uid == autoActions[proc[h].act].userId IN
  uid \in DOMAIN users /\ users[uid].subscriptionTier = "premium"

\* C13 (entitlement re-validated at execution time): when the loop body's
\* getUserById answers with an owner who does not hold the premium tier, the
\* rule does not enter the execution steps, nothing is submitted, and a failed
\* row for the rule and the event's domain is in auto_action_logs.
C13_EntitlementRevalidated ==
  [][\A h \in Handlers :
       (/\ proc[h].pc = "getUser"
        /\ proc'[h] # proc[h]
        /\ faulted' = faulted
        /\ ~OwnerIsPremium(h))
       => /\ proc'[h].pc \notin ExecPcs
          /\ submitted' = submitted
          /\ \E row \in DOMAIN autoActionLogs' :
               /\ row.actionId = proc[h].act
               /\ row.domain = proc[h].ev.domain
               /\ row.status = "failed"
    ]_vars

\* C14 (creating an auto-action requires premium): every rule createAutoAction
\* has inserted belongs to an existing premium owner; a call for an owner who
\* does not exist or is not premium throws 'Premium subscription required for
\* auto-actions' (or the store's error) and inserts nothing: the table has
\* grown by exactly one row per call that returned an id, and the id returned
\* is the id of the row that holds the caller's userId.
C14_CreateRequiresPremium ==
  /\ \A id \in DOMAIN autoActions \ DOMAIN InitAutoActions :
       HoldsPremium(users, autoActions[id].userId)
  /\ Cardinality(DOMAIN autoActions) =
       Cardinality(DOMAIN InitAutoActions) + creates.returned
  /\ createLast.how = "returned" =>
       /\ HoldsPremium(users, createLast.userId)
       /\ createLast.id \in DOMAIN autoActions \ DOMAIN InitAutoActions
       /\ autoActions[createLast.id].userId = createLast.userId
  /\ (createLast.how # "none"
        /\ ~(createLast.userId \in DOMAIN users
             /\ users[createLast.userId].subscriptionTier = "premium")) =>
       /\ createLast.how = "threw"
       /\ createLast.id = 0
       /\ ~createLast.storeError =>
            createLast.error = "Premium subscription required for auto-actions"

\* a rule has been inserted for the premium owner, and the call that ended
\* last, for an owner without a users row, threw the premium error
C14_Witness ==
  /\ creates.returned = 1
  /\ \E id \in DOMAIN autoActions \ DOMAIN InitAutoActions : autoActions[id].userId = 1
  /\ createLast.how = "threw"
  /\ createLast.userId \notin DOMAIN users
  /\ createLast.error = "Premium subscription required for auto-actions"

EventId(e) ==
  IF e.type \in {"expiry", "transfer"} THEN <<e.hash, e.type>>
  ELSE <<e.hash, "sale", e.type>>
\* the alert type the lookups are made with
AlertType(e) == IF e.type \in {"expiry", "transfer"} THEN e.type ELSE "sale"

\* getAlertsByDomain: isActive = 1 AND (domain = ? OR domainPattern = ?) AND type = ?
getAlertsByDomain(rows, domain, type) ==
  SortedSeq({id \in DOMAIN rows :
      /\ rows[id].isActive
      /\ (rows[id].domain = domain \/ rows[id].domainPattern = domain)
      /\ rows[id].type = type})

\* the filter of getAlertsByPattern: the LIKE pattern turned into ^...$ with
\* flag i; a pattern that does not compile is logged and does not match
LikeMatches(pattern, domain) ==
  LET src == ReplaceAll(ReplaceAll(pattern, "%", <<".", "*">>), "_", <<".">>) IN
  IF ~RegexValid(src) THEN FALSE ELSE RegexTest(src, domain, TRUE)

\* getAlertsByPattern: isActive = 1 AND domainPattern IS NOT NULL AND type = ?,
\* then the filter
getAlertsByPattern(rows, domain, type) ==
  SortedSeq({id \in DOMAIN rows :
      /\ rows[id].isActive
      /\ rows[id].domainPattern # <<>>
      /\ rows[id].type = type
      /\ LikeMatches(rows[id].domainPattern, domain)})

shouldTriggerExpiryAlert_never(conditions, event) == FALSE
shouldTriggerExpiryAlert(conditions, event) ==
  IF conditions.daysThreshold # 0 /\ event.daysUntilExpiry > conditions.daysThreshold
  THEN FALSE
  ELSE IF conditions.minUrgency # NULL
          /\ UrgencyLevel(event.urgency) < UrgencyLevel(conditions.minUrgency)
  THEN FALSE
  ELSE TRUE

\* "true" / "false" / "throws" (a domain pattern that does not compile)
\* "true" / "false" / "throws"; parseFloat(event.price) is NaN for an event
\* without a price, and every comparison with NaN is false
shouldTriggerSaleAlert(conditions, event) ==
  IF conditions.maxPrice # 0 /\ event.price # NaN /\ event.price > conditions.maxPrice
  THEN "false"
  ELSE IF conditions.minPrice # 0 /\ event.price # NaN /\ event.price < conditions.minPrice
  THEN "false"
  ELSE IF conditions.saleTypes # <<>> /\ event.type \notin Range(conditions.saleTypes)
       THEN "false"
  ELSE IF conditions.domainPatterns # <<>>
       THEN SomePatternMatches(conditions.domainPatterns, event.domain)
  ELSE "true"

\* shouldTriggerTransferAlert: alert.user is never part of a row the lookups
\* return, so onlyUserInvolved filters nothing and the comparisons of the
\* directions 'incoming' and 'outgoing' are made against undefined
shouldTriggerTransferAlert(conditions, event) ==
  IF conditions.direction \in {"incoming", "outgoing"} THEN FALSE ELSE TRUE

\* the if of the loop body of process*Event
ShouldTrigger(alert, event) ==
  IF event.type = "expiry" THEN shouldTriggerExpiryAlert(alert.conditions, event)
  ELSE IF event.type = "transfer" THEN shouldTriggerTransferAlert(alert.conditions, event)
  ELSE shouldTriggerSaleAlert(alert.conditions, event) = "true"

\* alertData.urgency: processExpiryEvent passes event.urgency, processSaleEvent
\* passes no urgency
AlertUrgency(e) == IF e.type = "expiry" THEN e.urgency ELSE NULL

\* sendAlert: !user || !user.isActive, negated
UserIsActive_anyone(usrs, userId) == TRUE
UserIsActive(usrs, userId) == userId \in DOMAIN usrs /\ usrs[userId].isActive

\* checkAlertFrequency(user, alertData)
checkAlertFrequency_always(user, urgency) == TRUE
checkAlertFrequency(user, urgency) ==
  IF user.subscriptionTier = "free" /\ urgency # "critical" THEN FALSE ELSE TRUE

RECURSIVE DigitsOf(_)
\* `${n}` for a natural number: its decimal digits
DigitsOf(n) ==
  LET d == <<"0", "1", "2", "3", "4", "5", "6", "7", "8", "9">> IN
  IF n < 10 THEN <<d[n + 1]>> ELSE DigitsOf(n \div 10) \o <<d[(n % 10) + 1]>>

\* urgencyEmoji[urgency]
UrgencyEmoji(u) ==
  CASE u = "critical" -> "emoji:critical" [] u = "high" -> "emoji:high"
    [] u = "medium" -> "emoji:medium" [] u = "low" -> "emoji:low"
    [] OTHER -> "undefined"

\* formatExpiryMessage: the message as the sequence of its pieces, the domain
\* and the number contributing their characters
formatExpiryMessage(domain, daysUntilExpiry, urgency) ==
  IF daysUntilExpiry <= 0
  THEN <<UrgencyEmoji("critical"), " EXPIRED: Domain ", "\"">> \o domain
         \o <<"\"", " has expired!">>
  ELSE IF daysUntilExpiry = 1
  THEN <<UrgencyEmoji("critical"), " URGENT: Domain ", "\"">> \o domain
         \o <<"\"", " expires in ", "1", " day!">>
  ELSE <<UrgencyEmoji(urgency), " Domain ", "\"">> \o domain
         \o <<"\"", " expires in ">> \o DigitsOf(daysUntilExpiry) \o <<" days">>

\* formatSaleMessage
formatSaleMessage(domain, saleType, price) ==
  LET head == CASE saleType = "listing" -> " NEW LISTING: "
                [] saleType = "sale" -> " SOLD: "
                [] saleType = "priceChange" -> " PRICE CHANGE: "
                [] OTHER -> " Sale activity for "
  IN <<"emoji:sale", head, "\"">> \o domain \o <<"\"", " ">>
       \o (IF price = NaN THEN Undefined ELSE DigitsOf(price))
       \o <<" USDC">>

\* str.slice(0, 6)
Slice6(str) == SubSeq(str, 1, IF Len(str) < 6 THEN Len(str) ELSE 6)

\* formatTransferMessage
formatTransferMessage(domain, from, to) ==
  <<"emoji:transfer", " TRANSFER: Domain ", "\"">> \o domain
    \o <<"\"", " transferred from ">> \o Slice6(from) \o <<"...", " to ">>
    \o Slice6(to) \o <<"...">>

\* formatAlertMessage(alertData)
formatAlertMessage(e) ==
  IF e.type = "expiry" THEN formatExpiryMessage(e.domain, e.daysUntilExpiry, e.urgency)
  ELSE IF e.type = "transfer" THEN formatTransferMessage(e.domain, e.from, e.to)
  ELSE formatSaleMessage(e.domain, e.type, e.price)

\* the same clean-up, were the oldest entries the ones that are kept
AddProcessed_oldest(seq, id, kind) ==
  LET added == IF id \in Range(seq) THEN seq ELSE Append(seq, id) IN
  IF kind = "expiry" /\ Len(added) > ProcessedEventsMax
  THEN SubSeq(added, 1, ProcessedEventsKeep)
  ELSE added

\* processedEvents.add(eventId); processExpiryEvent then drops all but the
\* newest ProcessedEventsKeep entries once the set holds more than
\* ProcessedEventsMax (processSaleEvent and processTransferEvent have no such
\* clean-up)
AddProcessed(seq, id, kind) ==
  LET added == IF id \in Range(seq) THEN seq ELSE Append(seq, id) IN
  IF kind = "expiry" /\ Len(added) > ProcessedEventsMax
  THEN SubSeq(added, Len(added) - ProcessedEventsKeep + 1, Len(added))
  ELSE added

RECURSIVE SkipToTriggering(_, _, _)
\* the for-loop runs synchronously over the alerts whose if is false (or throws)
SkipToTriggering(queue, rows, event) ==
  IF queue = <<>> THEN <<>>
  ELSE IF ShouldTrigger(rows[Head(queue)], event) THEN queue
  ELSE SkipToTriggering(Tail(queue), rows, event)

Bump(f, r) == [f EXCEPT ![r] = @ + 1]
SetKey(f, k, v) == [x \in DOMAIN f \cup {k} |-> IF x = k THEN v ELSE f[x]]

\* the record of a process*Event call that returns now
CallRecord(p, how) ==
  [how |-> how, ev |-> p.ev, id |-> p.id, after |-> p.after, tried |-> p.tried,
   emits |-> p.emits, handed |-> p.handed, bumped |-> p.bumped,
   storeError |-> p.storeError]

AlertLogRow(p, status) ==
  [alertId |-> p.cur, userId |-> alerts[p.cur].userId, eventType |-> AlertType(p.ev),
   ev |-> p.ev.hash, status |-> status]

(***************************************************************************)
(* Alert Dispatcher: the handlers.                                         *)
(***************************************************************************)
\* process*Event up to its first await: the dedup test, then getAlertsByDomain
StartCall(h, e) ==
  LET id == EventId(e)
      inFlight == \E g \in AlertHandlers : aproc[g].pc # "idle" /\ aproc[g].id = id
      after == IF id \in DOMAIN returnedCalls /\ ~inFlight THEN returnedCalls[id]
               ELSE "none"
      p == [AIdle EXCEPT !.ev = e, !.id = id, !.after = after]
  IN
  /\ aproc[h].pc = "idle"
  /\ \A g \in AlertHandlers : g < h => aproc[g].pc # "idle"
  /\ adelivered < MaxAlertDeliveries
  /\ adelivered' = adelivered + 1
  /\ IF id \in Range(processedEvents)
     THEN /\ alast' = CallRecord(p, "duplicate")
          /\ UNCHANGED aproc
     ELSE /\ aproc' = [aproc EXCEPT ![h] = [p EXCEPT !.pc = "byDomain"]]
          /\ UNCHANGED alast
  /\ UNCHANGED <<users, otherState, faulted, autoState, alerts, processedEvents, alertLogs,
                 alertsEmitted, returnedCalls>>

(***************************************************************************)
(* Contract monitor: the DomainExpiring callback.                          *)
(***************************************************************************)
Null == <<"null">>

\* the arguments ethers hands the callback: strings, or null / undefined
RawOwners == {WalletAUp, Null}
RawDomains == {Web3Ape, Null, Undefined}
\* expiryTime: the bigint of a log (seconds), a string that is no number
\* ('invalid-timestamp'), null or undefined
RawExpiryTimes ==
  { [kind |-> "bigint", val |-> 3 * 86400], [kind |-> "bigint", val |-> 86400],
    [kind |-> "string", val |-> 0], [kind |-> "null", val |-> 0],
    [kind |-> "undefined", val |-> 0] }
\* event: the log (blockNumber, transactionHash), an object without them ({}),
\* or undefined
RawLogs ==
  { [kind |-> "log", transactionHash |-> "t4"],
    [kind |-> "object", transactionHash |-> "undefined"],
    [kind |-> "undefined", transactionHash |-> "undefined"] }

\* Number(x): a bigint gives its value, null gives 0, undefined and a string
\* that is no number give NaN
Number(x) ==
  CASE x.kind = "bigint" -> [nan |-> FALSE, val |-> x.val]
    [] x.kind = "null" -> [nan |-> FALSE, val |-> 0]
    [] OTHER -> [nan |-> TRUE, val |-> 0]

\* Math.ceil(a / b) for b > 0
CeilDiv(a, b) == -((-a) \div b)

\* Math.ceil((Number(expiryTime) - now) / 86400): NaN stays NaN
DaysUntilExpiry(expiryTime, nowSec) ==
  IF Number(expiryTime).nan THEN [nan |-> TRUE, val |-> 0]
  ELSE [nan |-> FALSE, val |-> CeilDiv(Number(expiryTime).val - nowSec, 86400)]

\* daysUntilExpiry <= 1 ? 'critical' : daysUntilExpiry <= 3 ? 'high' : 'medium'
\* (a comparison with NaN is false)
UrgencyOf(days) ==
  IF ~days.nan /\ days.val <= 1 THEN "critical"
  ELSE IF ~days.nan /\ days.val <= 3 THEN "high"
  ELSE "medium"

\* the payload of this.emit('domainExpiry', ...)
ExpiryPayload(owner, domain, expiryTime, log, nowSec) ==
  [type |-> "expiry", domain |-> domain, owner |-> owner,
   expiryTime |-> Number(expiryTime),
   daysUntilExpiry |-> DaysUntilExpiry(expiryTime, nowSec),
   urgency |-> UrgencyOf(DaysUntilExpiry(expiryTime, nowSec)),
   transactionHash |-> log.transactionHash]

\* handleDomainExpiring(owner, domain, expiryTime, event): reading a property
\* of an undefined event throws, which the catch logs; otherwise the
\* 'domainExpiry' event is emitted
handleDomainExpiring(owner, domain, expiryTime, log) ==
  /\ monitor.callbacks < MaxCallbacks
  /\ monitor' =
       [callbacks |-> monitor.callbacks + 1,
        emitted |-> IF log.kind = "undefined" THEN monitor.emitted
                    ELSE Append(monitor.emitted,
                                ExpiryPayload(owner, domain, expiryTime, log,
                                              NowMs \div 1000))]
  /\ UNCHANGED <<users, serviceState, ledgerState, requestState, faulted, autoState, alertState, crudState, jobState>>

\* initializeServices: the services the program constructs and initializes
StartedServices ==
  {"telegramBot", "twitterBot", "alertService", "contractMonitor", "subscriptionService"}

\* the services with a listener on a channel of the contract monitor:
\* connectServices registers the Alert Dispatcher's three; the Auto-Action
\* Engine registers its own in initialize() (setupEventListeners)
MonitorListeners(channel) ==
  {s \in StartedServices :
     \/ s = "alertService" /\ channel \in {"domainExpiry", "domainSale", "domainTransfer"}
     \/ s = "autoActionsService"
          /\ channel \in {"domainExpiry", "domainSale", "domainAuction"}}

\* contractMonitor.on('domainExpiry', event => alertService.processExpiryEvent(event))
processExpiryEvent(h, e) ==
  /\ "alertService" \in MonitorListeners("domainExpiry")
  /\ e.type = "expiry"
  /\ StartCall(h, e)

\* contractMonitor.on('domainSale', event => alertService.processSaleEvent(event))
processSaleEvent(h, e) ==
  /\ "alertService" \in MonitorListeners("domainSale")
  /\ e.type \in {"listing", "sale", "priceChange"}
  /\ StartCall(h, e)

\* contractMonitor.on('domainTransfer', event => alertService.processTransferEvent(event))
processTransferEvent(h, e) ==
  /\ "alertService" \in MonitorListeners("domainTransfer")
  /\ e.type = "transfer"
  /\ StartCall(h, e)

\* the outer catch of process*Event: the error is logged and the call returns
Threw(h, p) ==
  /\ aproc' = [aproc EXCEPT ![h] = AIdle]
  /\ alast' = CallRecord([p EXCEPT !.storeError = TRUE], "threw")
  /\ returnedCalls' = SetKey(returnedCalls, p.id, "threw")
  /\ UNCHANGED processedEvents

\* the same loop, were the key added only when nothing had failed
ContinueLoop_unlessFailed(h, p, q) ==
  IF q = <<>>
  THEN /\ aproc' = [aproc EXCEPT ![h] = AIdle]
       /\ processedEvents' = IF p.storeError THEN processedEvents
                             ELSE AddProcessed(processedEvents, p.id, p.ev.type)
       /\ alast' = CallRecord(p, "done")
       /\ returnedCalls' = SetKey(returnedCalls, p.id, "done")
  ELSE /\ aproc' = [aproc EXCEPT ![h] =
                      [p EXCEPT !.pc = "getUser", !.queue = q, !.cur = Head(q),
                                !.tried = Bump(@, Head(q))]]
       /\ UNCHANGED <<processedEvents, alast, returnedCalls>>

\* the for-loop goes on with the alerts in q: the next sendAlert up to its
\* await of getUserById, or the end of the loop and processedEvents.add
ContinueLoop(h, p, q) ==
  IF q = <<>>
  THEN /\ aproc' = [aproc EXCEPT ![h] = AIdle]
       /\ processedEvents' = AddProcessed(processedEvents, p.id, p.ev.type)
       /\ alast' = CallRecord(p, "done")
       /\ returnedCalls' = SetKey(returnedCalls, p.id, "done")
  ELSE /\ aproc' = [aproc EXCEPT ![h] =
                      [p EXCEPT !.pc = "getUser", !.queue = q, !.cur = Head(q),
                                !.tried = Bump(@, Head(q))]]
       /\ UNCHANGED <<processedEvents, alast, returnedCalls>>

\* await getAlertsByDomain(...) settles
ByDomainSettled(h) ==
  /\ aproc[h].pc = "byDomain"
  /\ \E dbOk \in Outcomes :
       LET p == aproc[h] IN
       /\ Fault(dbOk)
       /\ IF dbOk
          THEN /\ aproc' = [aproc EXCEPT ![h] =
                   [p EXCEPT !.pc = "byPattern",
                             !.queue = getAlertsByDomain(alerts, p.ev.domain,
                                                         AlertType(p.ev))]]
               /\ UNCHANGED <<processedEvents, alast, returnedCalls>>
          ELSE Threw(h, p)
  /\ UNCHANGED <<users, otherState, autoState, alerts, alertLogs, alertsEmitted, adelivered>>

\* await getAlertsByPattern(...) settles; allAlerts = [...direct, ...pattern]
ByPatternSettled(h) ==
  /\ aproc[h].pc = "byPattern"
  /\ \E dbOk \in Outcomes :
       LET p == aproc[h]
           allAlerts == p.queue \o getAlertsByPattern(alerts, p.ev.domain, AlertType(p.ev))
       IN
       /\ Fault(dbOk)
       /\ IF dbOk
          THEN ContinueLoop(h, p, SkipToTriggering(allAlerts, alerts, p.ev))
          ELSE Threw(h, p)
  /\ UNCHANGED <<users, otherState, autoState, alerts, alertLogs, alertsEmitted, adelivered>>

\* sendAlert: await getUserById(alertData.userId) settles
SendUserSettled(h) ==
  /\ aproc[h].pc = "getUser"
  /\ \E dbOk \in Outcomes :
       LET p == aproc[h]
           uid == alerts[p.cur].userId
       IN
       /\ Fault(dbOk)
       /\ IF ~dbOk
          THEN \* catch: logAlertToDb({status: 'failed'})
               /\ aproc' = [aproc EXCEPT ![h] =
                              [p EXCEPT !.pc = "logFailed", !.storeError = TRUE]]
               /\ UNCHANGED alertsEmitted
          ELSE IF \/ ~UserIsActive(users, uid)
                  \/ ~checkAlertFrequency(users[uid], AlertUrgency(p.ev))
          THEN \* sendAlert returns; await incrementTriggerCount(alert.id)
               /\ aproc' = [aproc EXCEPT ![h] = [p EXCEPT !.pc = "increment"]]
               /\ UNCHANGED alertsEmitted
          ELSE \* this.emit('alert', ...); await logAlertToDb({status: 'sent'})
               /\ alertsEmitted' =
                    BagAdd(alertsEmitted,
                           [alertId |-> p.cur, userId |-> uid, ev |-> p.ev.hash,
                            urgency |-> AlertUrgency(p.ev),
                            message |-> formatAlertMessage(p.ev)])
               /\ aproc' = [aproc EXCEPT ![h] =
                              [p EXCEPT !.pc = "logSent", !.emits = Bump(@, p.cur)]]
  /\ UNCHANGED <<users, otherState, autoState, alerts, processedEvents, alertLogs, adelivered,
                 alast, returnedCalls>>

\* sendAlert: await logAlertToDb({status: 'sent'}) settles
LogSentSettled(h) ==
  /\ aproc[h].pc = "logSent"
  /\ \E dbOk \in Outcomes :
       LET p == aproc[h] IN
       /\ Fault(dbOk)
       /\ IF dbOk
          THEN /\ alertLogs' = BagAdd(alertLogs, AlertLogRow(p, "sent"))
               /\ aproc' = [aproc EXCEPT ![h] =
                              [p EXCEPT !.pc = "increment", !.handed = Bump(@, p.cur)]]
          ELSE /\ aproc' = [aproc EXCEPT ![h] =
                              [p EXCEPT !.pc = "logFailed", !.storeError = TRUE]]
               /\ UNCHANGED alertLogs
  /\ UNCHANGED <<users, otherState, autoState, alerts, processedEvents, alertsEmitted, adelivered,
                 alast, returnedCalls>>

\* sendAlert's catch: await logAlertToDb({status: 'failed'}) settles (its own
\* failure is logged and swallowed); sendAlert returns
LogFailedSettled(h) ==
  /\ aproc[h].pc = "logFailed"
  /\ \E dbOk \in Outcomes :
       LET p == aproc[h] IN
       /\ Fault(dbOk)
       /\ alertLogs' = IF dbOk THEN BagAdd(alertLogs, AlertLogRow(p, "failed"))
                       ELSE alertLogs
       /\ aproc' = [aproc EXCEPT ![h] = [p EXCEPT !.pc = "increment"]]
  /\ UNCHANGED <<users, otherState, autoState, alerts, processedEvents, alertsEmitted, adelivered,
                 alast, returnedCalls>>

\* await incrementTriggerCount(alert.id) settles (a throw is caught per alert),
\* and the loop goes on
IncrementSettled(h) ==
  /\ aproc[h].pc = "increment"
  /\ \E dbOk \in Outcomes :
       LET p == aproc[h]
           p1 == IF dbOk THEN [p EXCEPT !.bumped = Bump(@, p.cur)]
                 ELSE [p EXCEPT !.storeError = TRUE]
       IN
       /\ Fault(dbOk)
       /\ alerts' = IF dbOk THEN [alerts EXCEPT ![p.cur].triggerCount = @ + 1]
                    ELSE alerts
       /\ ContinueLoop(h, p1, SkipToTriggering(Tail(p.queue), alerts, p.ev))
  /\ UNCHANGED <<users, otherState, autoState, alertLogs, alertsEmitted, adelivered>>

(***************************************************************************)
(* Alert Dispatcher: the periodic jobs (setupPeriodicChecks).              *)
(***************************************************************************)
\* getActiveAlerts(type): isActive = 1 AND type = ?, joined with users that
\* are active, in creation order
getActiveAlerts(rows, usrs, type) ==
  SortedSeq({id \in DOMAIN rows :
      /\ rows[id].isActive
      /\ rows[id].type = type
      /\ rows[id].userId \in DOMAIN usrs
      /\ usrs[rows[id].userId].isActive})

\* checkDomainExpiry(domain): returns null
checkDomainExpiry(domain) == NULL

RECURSIVE SkipToDomain(_, _)
\* the loop of checkExpiringDomains runs synchronously over the alerts without
\* a domain
SkipToDomain(queue, rows) ==
  IF queue = <<>> THEN <<>>
  ELSE IF rows[Head(queue)].domain # <<>> THEN queue
  ELSE SkipToDomain(Tail(queue), rows)

\* the loop of checkExpiringDomains goes on with the alerts in q: the next
\* await of checkDomainExpiry, or the end of the run
SweepLoop(s, run, q) ==
  sweepRuns' = [sweepRuns EXCEPT ![s] =
                  IF q = <<>> THEN NoSweep
                  ELSE [run EXCEPT !.pc = "checkDomainExpiry", !.queue = q]]

\* cron '0 * * * *' fires: checkExpiringDomains() up to its await of getActiveAlerts
expiryCheck(s) ==
  /\ sweepRuns[s].pc = "idle"
  /\ \A t \in JobSlots : t < s => sweepRuns[t].pc # "idle"
  /\ jobLog.expiryCheck < MaxCronTicks
  /\ jobLog' = [jobLog EXCEPT !.expiryCheck = @ + 1]
  /\ sweepRuns' = [sweepRuns EXCEPT ![s] = [NoSweep EXCEPT !.pc = "getActiveAlerts"]]
  /\ UNCHANGED <<users, serviceState, ledgerState, requestState, faulted, autoState, alertState, crudState, monitor, digestRuns>>

\* await getActiveAlerts('expiry') settles (a throw ends the run in the outer catch)
SweepAlertsSettled(s) ==
  /\ sweepRuns[s].pc = "getActiveAlerts"
  /\ \E dbOk \in Outcomes :
       /\ Fault(dbOk)
       /\ IF dbOk
          THEN SweepLoop(s, sweepRuns[s],
                         SkipToDomain(getActiveAlerts(alerts, users, "expiry"), alerts))
          ELSE sweepRuns' = [sweepRuns EXCEPT ![s] = NoSweep]
  /\ UNCHANGED <<users, serviceState, ledgerState, requestState, autoState, alertState, crudState, monitor, digestRuns, jobLog>>

\* await this.checkDomainExpiry(alert.domain) settles: domainInfo is null, so
\* no alert is sent; checkedCount++ and the loop goes on
SweepDomainSettled(s) ==
  /\ sweepRuns[s].pc = "checkDomainExpiry"
  /\ LET run == sweepRuns[s]
         domainInfo == checkDomainExpiry(alerts[Head(run.queue)].domain)
     IN /\ domainInfo = NULL
        /\ SweepLoop(s, [run EXCEPT !.checked = @ + 1],
                     SkipToDomain(Tail(run.queue), alerts))
  /\ UNCHANGED <<users, serviceState, ledgerState, requestState, faulted, autoState, alertState, crudState, monitor, digestRuns, jobLog>>

\* getUsersByTier(tier): returns []
getUsersByTier(tier) == <<>>

\* generateDailySummary(userId)
generateDailySummary(userId) == [hasContent |-> FALSE, message |-> <<>>]

\* the 'alert' events of type dailySummary the loop of sendDailySummaries emits
\* for the users in freeUsers
SummariesFor(freeUsers) ==
  { [alertId |-> 0, userId |-> freeUsers[i], ev |-> "dailySummary", urgency |-> NULL,
     message |-> generateDailySummary(freeUsers[i]).message] :
      i \in {j \in DOMAIN freeUsers : generateDailySummary(freeUsers[j]).hasContent} }

RECURSIVE BagAddAll(_, _)
BagAddAll(b, S) ==
  IF S = {} THEN b
  ELSE LET x == CHOOSE y \in S : TRUE IN BagAddAll(BagAdd(b, x), S \ {x})

\* cron '0 9 * * *' fires: sendDailySummaries() up to its await of getUsersByTier
dailySummary(s) ==
  /\ digestRuns[s].pc = "idle"
  /\ \A t \in JobSlots : t < s => digestRuns[t].pc # "idle"
  /\ jobLog.dailySummary < MaxCronTicks
  /\ jobLog' = [jobLog EXCEPT !.dailySummary = @ + 1]
  /\ digestRuns' = [digestRuns EXCEPT ![s] = [pc |-> "getUsersByTier", seen |-> alast]]
  /\ UNCHANGED <<users, serviceState, ledgerState, requestState, faulted, autoState, alertState, crudState, monitor, sweepRuns>>

\* await getUsersByTier('free') settles, and the loop over freeUsers runs: each
\* generateDailySummary resolves at once, and a summary with content is emitted
DigestUsersSettled(s) ==
  /\ digestRuns[s].pc = "getUsersByTier"
  /\ alertsEmitted' = BagAddAll(alertsEmitted, SummariesFor(getUsersByTier("free")))
  /\ digestRuns' = [digestRuns EXCEPT ![s] = NoDigest]
  /\ jobLog' = [jobLog EXCEPT !.digestsDone = @ + 1, !.digestSeen = digestRuns[s].seen]
  /\ UNCHANGED <<users, serviceState, ledgerState, requestState, faulted, autoState, crudState, monitor, sweepRuns, alerts, processedEvents,
                 alertLogs, adelivered, aproc, alast, returnedCalls>>

(***************************************************************************)
(* The routes of /api/alerts (create, update, delete, toggle).             *)
(***************************************************************************)
\* limits[tier].alerts of checkUserLimits
FreeAlertLimit == 5
BasicAlertLimit == 20
PremiumAlertLimit == 999999

\* req.user.id of the requests: a free-tier and a basic-tier user
ApiUsers == {2, 4}
\* the :id of the requests: alerts 5 and 10, both of user 2
ApiAlertIds == {5, 10}
\* the bodies of POST /: a complete one, and one without platform
PostBodies ==
  { [NoBody EXCEPT !.type = "expiry", !.domain = NftApe, !.platform = "telegram"],
    [NoBody EXCEPT !.type = "expiry", !.domain = NftApe] }
\* the bodies of PUT /:id: {isActive: true}, and one without an allowed field
PutBodies == { [NoBody EXCEPT !.isActive = "true"], NoBody }

\* the alerts table once user 2 has created the alerts 8, 9 and 10 (POST /) and
\* switched 10 off (PATCH /10/toggle): four active alerts and an inactive one
ApiAlerts ==
  [id \in 1..10 |->
     IF id \in DOMAIN InitAlerts THEN InitAlerts[id]
     ELSE [userId |-> 2, type |-> "expiry", domain |-> NftApe, domainPattern |-> <<>>,
           isActive |-> (id # 10), triggerCount |-> 0, conditions |-> NoAlertConditions]]

\* limits[user.subscriptionTier] || limits.free
AlertLimit(tier) ==
  CASE tier = "free" -> FreeAlertLimit
    [] tier = "basic" -> BasicAlertLimit
    [] tier = "premium" -> PremiumAlertLimit
    [] OTHER -> FreeAlertLimit

\* SELECT COUNT(*) FROM alerts WHERE userId = ? AND isActive = 1
ActiveAlertCount(rows, userId) ==
  Cardinality({id \in DOMAIN rows : rows[id].userId = userId /\ rows[id].isActive})

\* limits.alerts.available: Math.max(0, userLimits.alerts - alertCount.count)
AlertsAvailable(tier, count) ==
  IF AlertLimit(tier) - count > 0 THEN AlertLimit(tier) - count ELSE 0

\* the parts of the Alert Dispatcher's state the routes do not touch
dispatchState == <<processedEvents, alertLogs, alertsEmitted, adelivered, aproc, alast,
                   returnedCalls>>

\* res.status(status).json(...): the handler is done
Respond(q, status) ==
  api' = [api EXCEPT !.reqs[q] = NoRequest,
                     !.last = [route |-> api.reqs[q].route, userId |-> api.reqs[q].userId,
                               status |-> status]]

\* a request arrives: its handler up to its first await (checkUserLimits ->
\* getUserById for POST /, getAlertById for the routes with an :id)
StartRequest(q, route, userId, alertId, body) ==
  /\ api.reqs[q].pc = "idle"
  /\ \A r \in RequestSlots : r < q => api.reqs[r].pc # "idle"
  /\ api.made < MaxRequests
  /\ api' = [api EXCEPT !.made = @ + 1,
                        !.reqs[q] = [NoRequest EXCEPT
                                       !.pc = IF route = "post" THEN "limitsUser"
                                              ELSE "existing",
                                       !.route = route, !.userId = userId,
                                       !.alertId = alertId, !.body = body]]
  /\ UNCHANGED <<users, serviceState, ledgerState, faulted, autoState, alertState, crudState, jobState, monitor>>

\* router.post('/')
postAlert(q, userId, body) ==
  /\ body \in PostBodies
  /\ StartRequest(q, "post", userId, 0, body)
\* router.put('/:id')
putAlert(q, userId, alertId, body) ==
  /\ body \in PutBodies
  /\ StartRequest(q, "put", userId, alertId, body)
\* router.delete('/:id')
deleteAlert(q, userId, alertId) ==
  /\ alertId \in ApiAlertIds
  /\ StartRequest(q, "delete", userId, alertId, NoBody)
\* router.patch('/:id/toggle')
toggleAlert(q, userId, alertId) ==
  /\ alertId \in ApiAlertIds
  /\ StartRequest(q, "toggle", userId, alertId, NoBody)

\* checkUserLimits: await getUserById(userId) settles (no row: 'User not found');
\* whatever is thrown reaches the catch of the route, which answers 500
LimitsUserSettled(q) ==
  /\ api.reqs[q].pc = "limitsUser"
  /\ \E dbOk \in Outcomes :
       LET r == api.reqs[q] IN
       /\ Fault(dbOk)
       /\ IF ~dbOk \/ r.userId \notin DOMAIN users THEN Respond(q, 500)
          ELSE api' = [api EXCEPT !.reqs[q] =
                         [r EXCEPT !.pc = "countAlerts",
                                   !.tier = users[r.userId].subscriptionTier]]
  /\ UNCHANGED <<users, serviceState, ledgerState, autoState, alertState, crudState, jobState, monitor>>

\* checkUserLimits: the COUNT of the user's active alerts settles
CountAlertsSettled(q) ==
  /\ api.reqs[q].pc = "countAlerts"
  /\ \E dbOk \in Outcomes :
       LET r == api.reqs[q] IN
       /\ Fault(dbOk)
       /\ IF ~dbOk THEN Respond(q, 500)
          ELSE api' = [api EXCEPT !.reqs[q] =
                         [r EXCEPT !.pc = "countDomains",
                                   !.count = ActiveAlertCount(alerts, r.userId)]]
  /\ UNCHANGED <<users, serviceState, ledgerState, autoState, alertState, crudState, jobState, monitor>>

\* checkUserLimits: the COUNT of domain_monitoring settles and the limits are
\* returned; the limit test and the validation of the route, then createAlert
\* (which throws on a type or platform it does not know) up to its INSERT
CountDomainsSettled(q) ==
  /\ api.reqs[q].pc = "countDomains"
  /\ \E dbOk \in Outcomes :
       LET r == api.reqs[q] IN
       /\ Fault(dbOk)
       /\ IF ~dbOk THEN Respond(q, 500)
          ELSE IF AlertsAvailable(r.tier, r.count) <= 0 THEN Respond(q, 403)
          ELSE IF r.body.type = NULL \/ r.body.platform = NULL THEN Respond(q, 400)
          ELSE IF r.body.domain = <<>> /\ r.body.domainPattern = <<>> THEN Respond(q, 400)
          ELSE IF r.body.type \notin {"expiry", "sale", "transfer", "price", "auction"}
                  \/ r.body.platform \notin {"telegram", "twitter", "both", "web"}
          THEN Respond(q, 500)
          ELSE api' = [api EXCEPT !.reqs[q] = [r EXCEPT !.pc = "insert"]]
  /\ UNCHANGED <<users, serviceState, ledgerState, autoState, alertState, crudState, jobState, monitor>>

\* createAlert: the INSERT settles (isActive defaults to 1, triggerCount to 0;
\* id is INTEGER PRIMARY KEY AUTOINCREMENT)
InsertSettled(q) ==
  /\ api.reqs[q].pc = "insert"
  /\ \E dbOk \in Outcomes :
       LET r == api.reqs[q] IN
       /\ Fault(dbOk)
       /\ IF ~dbOk THEN Respond(q, 500) /\ UNCHANGED alerts
          ELSE /\ alerts' =
                    [id \in DOMAIN alerts \cup {api.seq} |->
                       IF id = api.seq
                       THEN [userId |-> r.userId, type |-> r.body.type,
                             domain |-> r.body.domain,
                             domainPattern |-> r.body.domainPattern,
                             isActive |-> TRUE, triggerCount |-> 0,
                             conditions |-> NoAlertConditions]
                       ELSE alerts[id]]
               /\ api' = [api EXCEPT !.seq = @ + 1,
                                     !.reqs[q] = [r EXCEPT !.pc = "created",
                                                           !.alertId = api.seq]]
  /\ UNCHANGED <<users, serviceState, ledgerState, autoState, dispatchState, crudState, jobState, monitor>>

\* createAlert: getAlertById(result.lastID) settles; the route answers 201
CreatedSettled(q) ==
  /\ api.reqs[q].pc = "created"
  /\ \E dbOk \in Outcomes :
       /\ Fault(dbOk)
       /\ Respond(q, IF dbOk THEN 201 ELSE 500)
  /\ UNCHANGED <<users, serviceState, ledgerState, autoState, alertState, crudState, jobState, monitor>>

\* the routes with an :id: await getAlertById(alertId) settles; 404 unless the
\* alert exists and belongs to the user. Then updateAlert (which throws without
\* an allowed field) up to its UPDATE, or deleteAlert up to its DELETE
ExistingSettled(q) ==
  /\ api.reqs[q].pc = "existing"
  /\ \E dbOk \in Outcomes :
       LET r == api.reqs[q] IN
       /\ Fault(dbOk)
       /\ IF ~dbOk THEN Respond(q, 500)
          ELSE IF r.alertId \notin DOMAIN alerts \/ alerts[r.alertId].userId # r.userId
          THEN Respond(q, 404)
          ELSE IF r.route = "delete"
          THEN api' = [api EXCEPT !.reqs[q] = [r EXCEPT !.pc = "delete"]]
          ELSE IF r.route = "put" /\ r.body = NoBody THEN Respond(q, 500)
          ELSE api' = [api EXCEPT !.reqs[q] =
                         [r EXCEPT !.pc = "update",
                                   !.wasActive = alerts[r.alertId].isActive]]
  /\ UNCHANGED <<users, serviceState, ledgerState, autoState, alertState, crudState, jobState, monitor>>

\* the value `UPDATE alerts SET key = ?` stores for a key of the body: the
\* column keeps its value if the body has no such key, and a JSON null makes
\* it NULL
StoredText(old, sent) ==
  IF sent = <<>> THEN old ELSE IF sent = <<"null">> THEN <<>> ELSE sent

\* updateAlert: the UPDATE settles; PUT stores the isActive, domain and
\* domainPattern of its body (the bodies of the runs hold no other key), the
\* toggle stores !existingAlert.isActive
UpdateSettled(q) ==
  /\ api.reqs[q].pc = "update"
  /\ \E dbOk \in Outcomes :
       LET r == api.reqs[q]
           old == alerts[r.alertId]
           isActive == IF r.route = "toggle" THEN ~r.wasActive
                       ELSE IF r.body.isActive = NULL THEN old.isActive
                       ELSE r.body.isActive = "true"
       IN
       /\ Fault(dbOk)
       /\ IF ~dbOk THEN Respond(q, 500) /\ UNCHANGED alerts
          ELSE /\ alerts' = IF r.alertId \in DOMAIN alerts
                            THEN [alerts EXCEPT ![r.alertId] =
                                    [old EXCEPT
                                       !.isActive = isActive,
                                       !.domain = StoredText(@, r.body.domain),
                                       !.domainPattern =
                                          StoredText(@, r.body.domainPattern)]]
                            ELSE alerts
               /\ api' = [api EXCEPT !.reqs[q] = [r EXCEPT !.pc = "updated"]]
  /\ UNCHANGED <<users, serviceState, ledgerState, autoState, dispatchState, crudState, jobState, monitor>>

\* updateAlert: getAlertById(id) settles; the route answers 200
UpdatedSettled(q) ==
  /\ api.reqs[q].pc = "updated"
  /\ \E dbOk \in Outcomes :
       /\ Fault(dbOk)
       /\ Respond(q, IF dbOk THEN 200 ELSE 500)
  /\ UNCHANGED <<users, serviceState, ledgerState, autoState, alertState, crudState, jobState, monitor>>

\* deleteAlert: the DELETE settles (no row deleted: 'Alert not found' is thrown)
DeleteSettled(q) ==
  /\ api.reqs[q].pc = "delete"
  /\ \E dbOk \in Outcomes :
       LET r == api.reqs[q] IN
       /\ Fault(dbOk)
       /\ IF dbOk /\ r.alertId \in DOMAIN alerts
          THEN /\ alerts' = [id \in DOMAIN alerts \ {r.alertId} |-> alerts[id]]
               /\ Respond(q, 200)
          ELSE Respond(q, 500) /\ UNCHANGED alerts
  /\ UNCHANGED <<users, serviceState, ledgerState, autoState, dispatchState, crudState, jobState, monitor>>

\* the state after construction; the Auto-Action Engine is left alone
AlertInit ==
  /\ users = InitUsers
  /\ faulted = FALSE
  /\ AutoStateInit
  /\ AlertStateInit
  /\ CrudStateInit
  /\ JobStateInit
  /\ MonitorStateInit
  /\ RequestStateInit
  /\ LedgerStateInit
  /\ ServiceStateInit

AlertNext ==
  \/ \E h \in AlertHandlers, e \in AlertExpiryEvents : processExpiryEvent(h, e)
  \/ \E h \in AlertHandlers, e \in AlertSaleEvents : processSaleEvent(h, e)
  \/ \E h \in AlertHandlers, e \in AlertTransferEvents : processTransferEvent(h, e)
  \/ \E h \in AlertHandlers : ByDomainSettled(h)
  \/ \E h \in AlertHandlers : ByPatternSettled(h)
  \/ \E h \in AlertHandlers : SendUserSettled(h)
  \/ \E h \in AlertHandlers : LogSentSettled(h)
  \/ \E h \in AlertHandlers : LogFailedSettled(h)
  \/ \E h \in AlertHandlers : IncrementSettled(h)

SpecAlert == AlertInit /\ [][AlertNext]_vars

\* processSaleEvent under every kind of 'domainSale' event and sale rules with
\* a lower and an upper price bound
SaleAlertEvents == SaleEvents \cup PriceChangeEvents
SaleAlertRules ==
  [InitAlerts EXCEPT
     ![4] = [userId |-> 1, type |-> "sale", domain |-> NftApe, domainPattern |-> <<>>,
             isActive |-> TRUE, triggerCount |-> 0,
             conditions |-> [NoAlertConditions EXCEPT !.minPrice = 45, !.maxPrice = 50]],
     ![6] = [userId |-> 4, type |-> "sale", domain |-> NftApe, domainPattern |-> <<>>,
             isActive |-> TRUE, triggerCount |-> 0,
             conditions |-> [NoAlertConditions EXCEPT !.minPrice = 250]]]

SaleAlertInit ==
  /\ users = InitUsers
  /\ faulted = FALSE
  /\ AutoStateInit
  /\ alerts = SaleAlertRules
  /\ processedEvents = <<>>
  /\ alertLogs = EmptyBag
  /\ alertsEmitted = EmptyBag
  /\ adelivered = 0
  /\ aproc = [h \in AlertHandlers |-> AIdle]
  /\ alast = NoCall
  /\ returnedCalls = <<>>
  /\ CrudStateInit
  /\ JobStateInit
  /\ MonitorStateInit
  /\ RequestStateInit
  /\ LedgerStateInit
  /\ ServiceStateInit

SaleAlertNext ==
  \/ \E h \in AlertHandlers, e \in SaleAlertEvents : processSaleEvent(h, e)
  \/ \E h \in AlertHandlers : ByDomainSettled(h)
  \/ \E h \in AlertHandlers : ByPatternSettled(h)
  \/ \E h \in AlertHandlers : SendUserSettled(h)
  \/ \E h \in AlertHandlers : LogSentSettled(h)
  \/ \E h \in AlertHandlers : LogFailedSettled(h)
  \/ \E h \in AlertHandlers : IncrementSettled(h)

SpecSaleAlerts == SaleAlertInit /\ [][SaleAlertNext]_vars

\* processSaleEvent under sale rules with patterns that do not compile: rule 4
\* lists one in conditions.domainPatterns before a pattern that matches, rule 7
\* stores one as its domainPattern
ParenApe == <<"(", ".", "a", "p", "e">>
PatternRules ==
  [InitAlerts EXCEPT
     ![4] = [userId |-> 1, type |-> "sale", domain |-> NftApe, domainPattern |-> <<>>,
             isActive |-> TRUE, triggerCount |-> 0,
             conditions |-> [NoAlertConditions EXCEPT
                               !.domainPatterns = <<ParenApe, StarApe>>]],
     ![6] = [userId |-> 4, type |-> "sale", domain |-> NftApe, domainPattern |-> <<>>,
             isActive |-> TRUE, triggerCount |-> 0, conditions |-> NoAlertConditions],
     ![7] = [userId |-> 1, type |-> "sale", domain |-> <<>>, domainPattern |-> StarApe,
             isActive |-> TRUE, triggerCount |-> 0, conditions |-> NoAlertConditions]]

PatternInit ==
  /\ users = InitUsers
  /\ faulted = FALSE
  /\ AutoStateInit
  /\ alerts = PatternRules
  /\ processedEvents = <<>>
  /\ alertLogs = EmptyBag
  /\ alertsEmitted = EmptyBag
  /\ adelivered = 0
  /\ aproc = [h \in AlertHandlers |-> AIdle]
  /\ alast = NoCall
  /\ returnedCalls = <<>>
  /\ CrudStateInit
  /\ JobStateInit
  /\ MonitorStateInit
  /\ RequestStateInit
  /\ LedgerStateInit
  /\ ServiceStateInit

SpecPatterns == PatternInit /\ [][SaleAlertNext]_vars

\* the Alert Dispatcher after it has processed ProcessedEventsMax expiry events
\* (hashes "1", "2", ...) that matched no rule: processedEvents holds their keys
WindowInit ==
  /\ users = InitUsers
  /\ faulted = FALSE
  /\ AutoStateInit
  /\ alerts = InitAlerts
  /\ processedEvents = [i \in 1..ProcessedEventsMax |-> <<ToString(i), "expiry">>]
  /\ alertLogs = EmptyBag
  /\ alertsEmitted = EmptyBag
  /\ adelivered = 0
  /\ aproc = [h \in AlertHandlers |-> AIdle]
  /\ alast = NoCall
  /\ returnedCalls = <<>>
  /\ CrudStateInit
  /\ JobStateInit
  /\ MonitorStateInit
  /\ RequestStateInit
  /\ LedgerStateInit
  /\ ServiceStateInit

SpecWindow == WindowInit /\ [][AlertNext]_vars

\* the Alert Dispatcher with its daily summary job
DigestNext ==
  \/ AlertNext
  \/ \E s \in JobSlots : dailySummary(s)
  \/ \E s \in JobSlots : DigestUsersSettled(s)

SpecDigest == AlertInit /\ [][DigestNext]_vars

\* the periodic jobs of both services (setupPeriodicChecks, setupScheduledTasks)
JobsNext ==
  \/ \E s \in JobSlots : expiryCheck(s)
  \/ \E s \in JobSlots : SweepAlertsSettled(s)
  \/ \E s \in JobSlots : SweepDomainSettled(s)
  \/ \E s \in JobSlots : dailySummary(s)
  \/ \E s \in JobSlots : DigestUsersSettled(s)
  \/ cleanupStaleActions
  \/ resetMonthlyLimits
  \/ Tick

SpecJobs == AlertInit /\ [][JobsNext]_vars

\* the contract monitor and the clock
MonitorNext ==
  \/ \E o \in RawOwners, d \in RawDomains, t \in RawExpiryTimes, l \in RawLogs :
        handleDomainExpiring(o, d, t, l)
  \/ Tick

SpecMonitor == AlertInit /\ [][MonitorNext]_vars

\* the /api/alerts router on the alerts table ApiAlerts
ApiInit ==
  /\ users = InitUsers
  /\ faulted = FALSE
  /\ AutoStateInit
  /\ alerts = ApiAlerts
  /\ processedEvents = <<>>
  /\ alertLogs = EmptyBag
  /\ alertsEmitted = EmptyBag
  /\ adelivered = 0
  /\ aproc = [h \in AlertHandlers |-> AIdle]
  /\ alast = NoCall
  /\ returnedCalls = <<>>
  /\ CrudStateInit
  /\ JobStateInit
  /\ MonitorStateInit
  /\ api = [reqs |-> [q \in RequestSlots |-> NoRequest], made |-> 0,
            seq |-> Cardinality(DOMAIN ApiAlerts) + 1, last |-> NoResponse]
  /\ LedgerStateInit
  /\ ServiceStateInit

ApiNext ==
  \/ \E q \in RequestSlots, u \in ApiUsers, b \in PostBodies : postAlert(q, u, b)
  \/ \E q \in RequestSlots, u \in ApiUsers, id \in ApiAlertIds, b \in PutBodies :
        putAlert(q, u, id, b)
  \/ \E q \in RequestSlots, u \in ApiUsers, id \in ApiAlertIds : deleteAlert(q, u, id)
  \/ \E q \in RequestSlots, u \in ApiUsers, id \in ApiAlertIds : toggleAlert(q, u, id)
  \/ \E q \in RequestSlots : LimitsUserSettled(q)
  \/ \E q \in RequestSlots : CountAlertsSettled(q)
  \/ \E q \in RequestSlots : CountDomainsSettled(q)
  \/ \E q \in RequestSlots : InsertSettled(q)
  \/ \E q \in RequestSlots : CreatedSettled(q)
  \/ \E q \in RequestSlots : ExistingSettled(q)
  \/ \E q \in RequestSlots : UpdateSettled(q)
  \/ \E q \in RequestSlots : UpdatedSettled(q)
  \/ \E q \in RequestSlots : DeleteSettled(q)

SpecApi == ApiInit /\ [][ApiNext]_vars

\* POST / and PUT /:id with bodies that name a domain, a pattern, both or
\* neither, from a table whose rows each have a domain and no pattern
FieldPostBodies ==
  { [NoBody EXCEPT !.type = "expiry", !.platform = "telegram", !.domain = NftApe],
    [NoBody EXCEPT !.type = "expiry", !.platform = "telegram", !.domain = NftApe,
                   !.domainPattern = PctApe],
    [NoBody EXCEPT !.type = "expiry", !.platform = "telegram"] }
FieldPutBodies ==
  { [NoBody EXCEPT !.domainPattern = PctApe],
    [NoBody EXCEPT !.domain = <<"null">>],
    [NoBody EXCEPT !.domain = <<"null">>, !.domainPattern = PctApe] }
FieldAlerts == [id \in ApiAlertIds |-> ApiAlerts[id]]

FieldInit ==
  /\ users = InitUsers
  /\ faulted = FALSE
  /\ AutoStateInit
  /\ alerts = FieldAlerts
  /\ processedEvents = <<>>
  /\ alertLogs = EmptyBag
  /\ alertsEmitted = EmptyBag
  /\ adelivered = 0
  /\ aproc = [h \in AlertHandlers |-> AIdle]
  /\ alast = NoCall
  /\ returnedCalls = <<>>
  /\ CrudStateInit
  /\ JobStateInit
  /\ MonitorStateInit
  /\ api = [reqs |-> [q \in RequestSlots |-> NoRequest], made |-> 0,
            seq |-> Cardinality(DOMAIN ApiAlerts) + 1, last |-> NoResponse]
  /\ LedgerStateInit
  /\ ServiceStateInit

\* router.post('/') and router.put('/:id') with these bodies
postAlertFields(q, userId, body) ==
  /\ body \in FieldPostBodies
  /\ StartRequest(q, "post", userId, 0, body)
putAlertFields(q, userId, alertId, body) ==
  /\ body \in FieldPutBodies
  /\ StartRequest(q, "put", userId, alertId, body)

FieldNext ==
  \/ \E q \in RequestSlots, b \in FieldPostBodies : postAlertFields(q, 2, b)
  \/ \E q \in RequestSlots, id \in ApiAlertIds, b \in FieldPutBodies :
        putAlertFields(q, 2, id, b)
  \/ \E q \in RequestSlots : LimitsUserSettled(q)
  \/ \E q \in RequestSlots : CountAlertsSettled(q)
  \/ \E q \in RequestSlots : CountDomainsSettled(q)
  \/ \E q \in RequestSlots : InsertSettled(q)
  \/ \E q \in RequestSlots : CreatedSettled(q)
  \/ \E q \in RequestSlots : ExistingSettled(q)
  \/ \E q \in RequestSlots : UpdateSettled(q)
  \/ \E q \in RequestSlots : UpdatedSettled(q)

SpecRuleFields == FieldInit /\ [][FieldNext]_vars

\* The event handling of both dispatchers. They share no state (both only read
\* the users table), so a run of the two is an interleaving of a run of each:
\* the specification takes the runs in which one of the two is handed the events.
DispatchersNext ==
  \/ AlertStateInit /\ EventHandling
  \/ AutoStateInit /\ AlertNext

SpecDispatchers == AutoInit /\ [][DispatchersNext]_vars

(***************************************************************************)
(* Shutdown: the stop() methods of the three services.                     *)
(***************************************************************************)
\* ContractMonitor.stop(): removeAllListeners() drops the listeners the other
\* services registered on the monitor's channels; calls in flight go on
stopContractMonitor ==
  /\ "contractMonitor" \notin stopped
  /\ stopped' = stopped \cup {"contractMonitor"}
  /\ UNCHANGED <<users, faulted, autoState, alertState, crudState, jobState, monitor,
                 requestState, ledgerState>>

\* AlertService.stop(): every task of scheduledTasks is destroyed
stopAlertService ==
  /\ "alertService" \notin stopped
  /\ stopped' = stopped \cup {"alertService"}
  /\ UNCHANGED <<users, faulted, autoState, alertState, crudState, jobState, monitor,
                 requestState, ledgerState>>

\* AutoActionsService.stop(): activeActions.clear(), monthlySpending.clear(),
\* and removeAllListeners() on the service itself; its cron tasks are kept by
\* no one and go on, and its listeners on the contract monitor stay
stopAutoActions ==
  /\ "autoActionsService" \notin stopped
  /\ stopped' = stopped \cup {"autoActionsService"}
  /\ activeActions' = <<>>
  /\ monthlySpending' = <<>>
  /\ UNCHANGED <<users, faulted, autoActions, autoActionLogs, emitted, submitted, now,
                 month, delivered, proc, last, cleaned, alertState, crudState, jobState,
                 monitor, requestState, ledgerState>>

\* a 'domainSale' event of the contract monitor reaches the listeners that are
\* still registered on it
onDomainSale(h, e) ==
  /\ "contractMonitor" \notin stopped
  /\ DeliverSale(h, e)

\* the hourly task of setupPeriodicChecks fires unless it has been destroyed
expiryCheckTask(s) ==
  /\ "alertService" \notin stopped
  /\ expiryCheck(s)

\* one listing
ShutdownEvents == {e \in SaleEvents : e.hash = "t1"}

ShutdownNext ==
  \/ \E e \in ShutdownEvents : onDomainSale(1, e)
  \/ GetAutoActionsSettled(1)
  \/ GetUserSettled(1)
  \/ CheckSpendingLimitsSettled(1)
  \/ SignerUserSettled(1)
  \/ ExecutionContinues(1)
  \/ expiryCheckTask(1)
  \/ SweepAlertsSettled(1)
  \/ SweepDomainSettled(1)
  \/ cleanupStaleActions
  \/ Tick
  \/ stopContractMonitor
  \/ stopAlertService
  \/ stopAutoActions

SpecShutdown == AutoInit /\ [][ShutdownNext]_vars

\* one chain event handed to the Auto-Action Engine again and again, one call
\* after the other (the listener of setupEventListeners, and the replay of
\* the log by scanHistoricalEvents), with the hourly cleanup and the clock
onDomainExpiry(e) ==
  /\ e.type = "expiry"
  /\ DeliverExpiry(1, e)

RedeliveryNext ==
  \/ \E e \in ExpiryEvents : onDomainExpiry(e)
  \/ GetAutoActionsSettled(1)
  \/ GetUserSettled(1)
  \/ CheckSpendingLimitsSettled(1)
  \/ SignerUserSettled(1)
  \/ ExecutionContinues(1)
  \/ cleanupStaleActions
  \/ Tick

SpecRedelivery == AutoInit /\ [][RedeliveryNext]_vars

(***************************************************************************)
(* Alert Dispatcher: properties.                                           *)
(***************************************************************************)
AlertIds == DOMAIN InitAlerts
CallDone == alast.how = "done" /\ ~alast.storeError
Owner(r) == users[alerts[r].userId]

\* C6 (dedup idempotence): a call of process*Event made after an earlier call
\* for the same transaction hash and kind has returned performs no rule lookup
\* and no send (it never gets past the dedup test), and a processing of an
\* event dispatches at most once per matching rule.
C6_DedupIdempotence ==
  /\ \A h \in AlertHandlers : aproc[h].pc # "idle" => aproc[h].after = "none"
  /\ alast.how \in {"done", "threw"} => alast.after = "none"
  /\ \A h \in AlertHandlers, r \in AlertIds : aproc[h].emits[r] <= 1
  /\ \A r \in AlertIds : alast.emits[r] <= 1

\* C8 (frequency gating): an 'alert' emitted for a free-tier owner has urgency
\* critical; in a call whose collaborators all answered, a rule of an active
\* free-tier owner that passed its conditions is emitted when the urgency is
\* critical and is not emitted otherwise, and a rule of an active basic or
\* premium owner that passed its conditions is emitted every time.
C8_FrequencyGating ==
  /\ \A x \in DOMAIN alertsEmitted :
       users[x.userId].subscriptionTier = "free" => x.urgency = "critical"
  /\ CallDone =>
       \A r \in AlertIds :
         Owner(r).isActive =>
           IF Owner(r).subscriptionTier = "free" /\ AlertUrgency(alast.ev) # "critical"
           THEN alast.emits[r] = 0
           ELSE alast.emits[r] = alast.tried[r]

\* a critical alert of a free-tier owner's rule has been emitted, and the call
\* that returned last withheld the same rule's alert of urgency high
C8_Witness ==
  /\ CallDone
  /\ alast.ev.urgency = "high"
  /\ alast.tried[2] = 1 /\ alast.emits[2] = 0
  /\ alast.tried[1] = 1 /\ alast.emits[1] = 1
  /\ alast.tried[6] = 1 /\ alast.emits[6] = 1
  /\ Owner(1).subscriptionTier = "premium" /\ Owner(6).subscriptionTier = "basic"
  /\ \E x \in DOMAIN alertsEmitted :
       x.alertId = 2 /\ x.urgency = "critical" /\ users[x.userId].subscriptionTier = "free"

RECURSIVE SumOver(_, _)
SumOver(b, S) ==
  IF S = {} THEN 0
  ELSE LET x == CHOOSE y \in S : TRUE IN b[x] + SumOver(b, S \ {x})
\* the rows of alert_logs with status 'sent' for rule r
SentRows(r) ==
  SumOver(alertLogs, {x \in DOMAIN alertLogs : x.alertId = r /\ x.status = "sent"})

\* C9 (triggerCount counts deliveries): in a call whose collaborators all
\* answered, a rule's triggerCount is incremented once for every alert of the
\* rule that was handed off (emitted and logged as sent) and not otherwise;
\* over the run, a rule's triggerCount is at most the number of its sent rows.
C9_TriggerCountCountsDeliveries ==
  /\ CallDone => \A r \in AlertIds : alast.bumped[r] = alast.handed[r]
  /\ \A r \in AlertIds : alerts[r].triggerCount <= SentRows(r)

\* C10 (end-to-end alert): the Expiring event for web3.ape with daysUntilExpiry
\* 3 and urgency high, processed with every collaborator answering, produces
\* exactly one dispatch for rule 1 (exact domain, daysThreshold 7, premium
\* owner), raises its triggerCount by exactly 1 and emits a message that
\* contains the domain name and "3 days".
C10_EndToEndAlert ==
  (CallDone /\ alast.ev.hash = "t4") =>
     /\ alast.tried[1] = 1
     /\ alast.emits[1] = 1
     /\ alast.handed[1] = 1
     /\ alast.bumped[1] = 1
     /\ alerts[1].triggerCount >= 1
     /\ \E x \in DOMAIN alertsEmitted :
          /\ x.alertId = 1 /\ x.ev = "t4"
          /\ x.message = formatExpiryMessage(Web3Ape, 3, "high")
          /\ Contains(x.message, Web3Ape)
          /\ Contains(x.message, <<"3", " days">>)
     /\ BagCount(alertLogs, [alertId |-> 1, userId |-> 1, eventType |-> "expiry",
                             ev |-> "t4", status |-> "sent"]) >= 1

\* the event has been processed once, with every collaborator answering
C10_Witness ==
  /\ CallDone
  /\ alast.ev.hash = "t4" /\ alast.ev.daysUntilExpiry = 3 /\ alast.ev.urgency = "high"
  /\ alerts[1].domain = alast.ev.domain /\ alerts[1].conditions.daysThreshold = 7
  /\ alerts[1].triggerCount = 1
  /\ alast.bumped[1] = 1

\* rule 7 of the alerts table with its domainPattern set to pattern is among the
\* rules getAlertsByDomain and getAlertsByPattern return for an event on domain
SelectedFor(pattern, domain) ==
  LET rows == [InitAlerts EXCEPT ![7].domainPattern = pattern] IN
  7 \in Range(getAlertsByDomain(rows, domain, "expiry")
               \o getAlertsByPattern(rows, domain, "expiry"))

\* C11 (wildcard pattern matching): the rule with domainPattern "*.ape" is
\* selected for events on web3.ape and x.ape and not for web3.xyz, a rule with
\* pattern "a*c.ape" is selected for abc.ape and ac.ape, and a processing of an
\* expiry event on web3.ape whose collaborators all answered handles rule 7
\* (pattern "*.ape", no conditions).
C11_WildcardPatternMatching ==
  /\ SelectedFor(StarApe, Web3Ape)
  /\ SelectedFor(StarApe, XApe)
  /\ ~SelectedFor(StarApe, Web3Xyz)
  /\ SelectedFor(AStarCApe, AbcApe)
  /\ SelectedFor(AStarCApe, AcApe)
  /\ (CallDone /\ alast.ev.domain = Web3Ape) => alast.tried[7] >= 1

\* C12 (dedup window is capacity-bounded): after any sequence of expiry, sale
\* and transfer events, processedEvents holds at most ProcessedEventsMax keys.
C12_DedupWindowBounded == Len(processedEvents) <= ProcessedEventsMax

\* the rules process*Event finds for event e and whose condition check passes
Triggering(e) ==
  {r \in Range(getAlertsByDomain(alerts, e.domain, AlertType(e))
               \o getAlertsByPattern(alerts, e.domain, AlertType(e))) :
     ShouldTrigger(alerts[r], e)}

\* C15 (isolation of failures): a process*Event call always ends by returning
\* (done, or the caught error of a rule lookup), and one that got past the
\* lookups has called sendAlert for every matching rule whose conditions pass,
\* whatever failed while another rule was handled; in checkAuto*, whenever the
\* handling of a rule ends, by a skip, by a thrown error or by the end of its
\* execution, the loop goes on with the next rule of the same event, and the
\* call returns only after the last one.
C15_IsolationOfFailures ==
  /\ [](/\ alast.how \in {"none", "duplicate", "done", "threw"}
        /\ alast.how = "done" => \A r \in Triggering(alast.ev) : alast.tried[r] >= 1)
  /\ [][\A h \in Handlers :
         (/\ proc[h].pc \in {"getUser"} \cup ExecPcs
          /\ proc'[h] # proc[h]
          /\ (proc'[h].pc = "idle" \/ proc'[h].act # proc[h].act))
         => IF proc[h].queue = <<>> THEN proc'[h].pc = "idle"
            ELSE /\ proc'[h].pc = "getUser"
                 /\ proc'[h].ev = proc[h].ev
                 /\ proc'[h].act = Head(proc[h].queue)
                 /\ proc'[h].queue = Tail(proc[h].queue)
      ]_vars

\* after the execution of buy rule 1 failed for the listing, the loop of the
\* same checkAutoPurchase call is at the next rule
C15_Witness ==
  /\ last.outcome = "failed" /\ last.act = 1
  /\ \E h \in Handlers :
       proc[h].pc = "getUser" /\ proc[h].act = 2 /\ proc[h].ev = last.ev

\* C16 (independent consumers): every event the contract monitor has emitted
\* is taken up by both consumers: each of its channels has the listeners of
\* the Alert Dispatcher and of the Auto-Action Engine, and the engine has been
\* handed as many events of the program's run as the dispatcher.
C16_IndependentConsumers ==
  (adelivered > 0) =>
     /\ \A ch \in {"domainExpiry", "domainSale", "domainTransfer"} :
          MonitorListeners(ch) = {"alertService", "autoActionsService"}
     /\ delivered = adelivered

\* the call c of process*Event withheld an alert of rule r from its active
\* free-tier owner at the frequency gate
Withheld(c, r) ==
  /\ c.how = "done" /\ ~c.storeError
  /\ c.tried[r] >= 1 /\ c.emits[r] = 0
  /\ Owner(r).isActive /\ Owner(r).subscriptionTier = "free"
  /\ AlertUrgency(c.ev) # "critical"

\* C18 (digest completeness): once a run of sendDailySummaries has completed,
\* every alert that had been withheld from a free-tier owner by the frequency
\* gate before the run was started is covered by a dailySummary 'alert' emitted
\* to that owner.
C18_DigestCompleteness ==
  jobLog.digestsDone >= 1 =>
    \A r \in AlertIds :
      Withheld(jobLog.digestSeen, r) =>
        \E x \in DOMAIN alertsEmitted :
          x.ev = "dailySummary" /\ x.userId = alerts[r].userId

\* C19 (no re-entrant job runs): at most one run of checkExpiringDomains and
\* at most one run of sendDailySummaries is in progress at any instant.
C19_NoReentrantJobRuns ==
  /\ Cardinality({s \in JobSlots : sweepRuns[s].pc # "idle"}) <= 1
  /\ Cardinality({s \in JobSlots : digestRuns[s].pc # "idle"}) <= 1

\* C20 (malformed callbacks produce no event): every 'domainExpiry' event the
\* monitor has emitted carries a domain and an owner that are strings, a
\* numeric expiry time and day count, and the transaction hash of a log.
C20_MalformedCallbacksRejected ==
  \A i \in DOMAIN monitor.emitted :
    LET e == monitor.emitted[i] IN
    /\ e.domain \notin {Null, Undefined}
    /\ e.owner \notin {Null, Undefined}
    /\ ~e.expiryTime.nan
    /\ ~e.daysUntilExpiry.nan
    /\ e.transactionHash # "undefined"

C26_DedupInsertionUnconditional ==
  /\ [](alast.how = "done" => alast.id \in Range(processedEvents))
  /\ [][\A h \in AlertHandlers :
         (/\ aproc[h].pc \in {"byPattern", "increment"}
          /\ aproc'[h].pc = "idle")
         => \/ alast'.how = "threw" /\ aproc[h].pc = "byPattern"
            \/ /\ alast'.how = "done"
               /\ aproc[h].id \in Range(processedEvents')
      ]_vars
  /\ [][(adelivered' = adelivered + 1 /\ alast' # alast)
         => /\ alast'.how = "duplicate"
            /\ alast'.id \in Range(processedEvents)
            /\ aproc' = aproc
            /\ alerts' = alerts /\ alertLogs' = alertLogs
            /\ alertsEmitted' = alertsEmitted
      ]_vars

\* a call has returned whose only sendAlert failed (nothing emitted, nothing
\* handed over), and its event id is in processedEvents
C26_Witness ==
  /\ alast.how = "done" /\ alast.storeError
  /\ \E r \in AlertIds : alast.tried[r] = 1
  /\ \A r \in AlertIds : alast.tried[r] >= 1 => alast.emits[r] = 0 /\ alast.handed[r] = 0
  /\ \E row \in DOMAIN alertLogs : row.status = "failed" /\ row.ev = alast.ev.hash
  /\ alast.id \in Range(processedEvents)

\* the price a sale-family event reports: the new price of a price change
SalePrice(e) == IF e.type = "priceChange" THEN e.newPrice ELSE e.price
WithinPriceBounds(c, p) ==
  /\ c.minPrice # 0 => c.minPrice <= p
  /\ c.maxPrice # 0 => p <= c.maxPrice
\* the sale rules the lookups of processSaleEvent return for e that have no
\* condition other than price bounds
PriceRules(e) ==
  {r \in Range(getAlertsByDomain(alerts, e.domain, "sale")
               \o getAlertsByPattern(alerts, e.domain, "sale")) :
     alerts[r].conditions.saleTypes = <<>> /\ alerts[r].conditions.domainPatterns = <<>>}

\* C29 (inclusive price bounds for sale alerts): for a listing, a sale or a
\* price change and a sale rule, sendAlert is called for the rule if and only
\* if the event's price p satisfies minPrice <= p <= maxPrice, each bound
\* applying only when it is set; an event whose price is outside a set bound
\* never triggers the rule.
C29_InclusivePriceBounds ==
  /\ \A h \in AlertHandlers :
       \A r \in PriceRules(aproc[h].ev) :
         aproc[h].tried[r] >= 1
         => WithinPriceBounds(alerts[r].conditions, SalePrice(aproc[h].ev))
  /\ alast.how = "done" =>
       \A r \in PriceRules(alast.ev) :
         alast.tried[r] >= 1
         <=> WithinPriceBounds(alerts[r].conditions, SalePrice(alast.ev))

\* the expiry status of a domain on the chain while the sweeps run: web3.ape
\* expires in one day
ChainExpiryStatus(domain) ==
  [NoEvent EXCEPT !.type = "expiry", !.domain = domain,
                  !.daysUntilExpiry = IF domain = Web3Ape THEN 1 ELSE 365,
                  !.urgency = IF domain = Web3Ape THEN "critical" ELSE "medium"]

\* C30 (expiry sweep): in a run of checkExpiringDomains, for every active expiry
\* rule bound to a concrete domain whose on-chain expiry satisfies the rule's
\* conditions, an expiry event is fed to the dispatcher (a dispatch is begun:
\* a call in progress, a dedup key, an emission, a log row or a trigger count
\* changes) when the rule's turn in the sweep is over; rules that have only a
\* pattern are never looked at by the sweep.
C30_ExpirySweepFeedsEvents ==
  /\ [](\A s \in JobSlots :
          sweepRuns[s].pc = "checkDomainExpiry"
          => alerts[Head(sweepRuns[s].queue)].domain # <<>>)
  /\ [][\A s \in JobSlots :
         (/\ sweepRuns[s].pc = "checkDomainExpiry"
          /\ sweepRuns'[s] # sweepRuns[s]
          /\ LET rule == alerts[Head(sweepRuns[s].queue)] IN
             shouldTriggerExpiryAlert(rule.conditions, ChainExpiryStatus(rule.domain)))
         => alertState' # alertState
      ]_vars

\* some pattern of the list compiles and matches d, a pattern that does not
\* compile counting as one that does not match
SomeValidPatternMatches(patterns, d) ==
  \E i \in DOMAIN patterns :
    LET src == ReplaceAll(patterns[i], "*", <<".", "*">>) IN
    RegexValid(src) /\ RegexTest(src, d, FALSE) = TRUE

\* C31 (malformed patterns never crash matching): a process*Event call that got
\* past the lookups returns normally, and has called sendAlert for exactly the
\* sale rules found for the event whose other conditions pass and whose
\* conditions.domainPatterns, if any, hold a pattern that compiles and matches
\* the domain (a pattern that does not compile counts as not matching); a rule
\* whose stored domainPattern does not compile is not selected by the pattern
\* lookup.
C31_MalformedPatternsDoNotMatch ==
  /\ \A r \in DOMAIN alerts :
       (alerts[r].domainPattern # <<>>
        /\ ~RegexValid(ReplaceAll(ReplaceAll(alerts[r].domainPattern, "%", <<".", "*">>),
                                  "_", <<".">>)))
       => \A h \in AlertHandlers :
            aproc[h].ev.domain # alerts[r].domainPattern => aproc[h].tried[r] = 0
  /\ (alast.how = "done" /\ alast.ev.type \in {"listing", "sale", "priceChange"})
     => \A r \in Range(getAlertsByDomain(alerts, alast.ev.domain, "sale")) :
          LET c == alerts[r].conditions IN
          alast.tried[r] >= 1
          <=> /\ shouldTriggerSaleAlert([c EXCEPT !.domainPatterns = <<>>], alast.ev) = "true"
              /\ c.domainPatterns # <<>> => SomeValidPatternMatches(c.domainPatterns, alast.ev.domain)

(***************************************************************************)
(* The /api/alerts router: properties.                                     *)
(***************************************************************************)
\* C22 (tier alert limit): after any sequence of create, update, toggle and
\* delete requests, concurrent ones included, a free-tier user has at most
\* FreeAlertLimit active alerts and a basic-tier user at most BasicAlertLimit.
C22_TierAlertLimit ==
  \A u \in DOMAIN users :
    /\ users[u].subscriptionTier = "free" =>
         ActiveAlertCount(alerts, u) <= FreeAlertLimit
    /\ users[u].subscriptionTier = "basic" =>
         ActiveAlertCount(alerts, u) <= BasicAlertLimit

\* C24 (a later distinct event fires the rule again): when the loop of
\* checkAuto* reaches a rule that qualifies for its event, the attempt that
\* returned last was for the same rule and domain on another event, and no
\* attempt on that key is in progress, then the rule enters the execution
\* steps for the new event under a fresh lock (it is not skipped as already
\* in progress).
C24_LaterEventFiresAgain ==
  [][\A h \in Handlers :
       LET p == proc[h]
           key == ActionKey(p.kind, p.act, p.ev.domain)
       IN (/\ p.pc = "getUser"
           /\ proc'[h] # p
           /\ Qualifies(p, faulted' = faulted)
           /\ Returned
           /\ last.key = key
           /\ last.ev.hash # p.ev.hash
           /\ \A g \in Handlers : proc[g].pc \in ExecPcs => proc[g].key # key)
          => /\ proc'[h].pc = "checkLimits"
             /\ proc'[h].key = key
             /\ proc'[h].ev = p.ev
             /\ last' = last
    ]_vars

\* the 'autoActionFailed' event the catch block of execute* emits for p
FailedEvent(p) ==
  [name |-> "autoActionFailed", userId |-> autoActions[p.act].userId,
   domain |-> p.ev.domain, error |-> p.err]

C32_DomainXorPattern ==
  \A id \in DOMAIN alerts :
    (alerts[id].domain # <<>>) # (alerts[id].domainPattern # <<>>)

(***************************************************************************)
(* Auto-Action Engine: eligibility of renewals and purchases.              *)
(***************************************************************************)
\* C27 (renewal eligibility): executeAutoRenewal runs for a rule only when the
\* rule owner's wallet address and the owner carried by the expiry event are
\* both present and equal up to letter case; when either is missing or the two
\* differ, no renewal is attempted.
C27_RenewalEligibility ==
  \A h \in Handlers :
    (proc[h].pc \in ExecPcs /\ proc[h].kind = "renew")
    => LET wallet == users[autoActions[proc[h].act].userId].walletAddress
           owner == proc[h].ev.owner
       IN /\ wallet # Undefined
          /\ owner # Undefined
          /\ LowerStr(wallet) = LowerStr(owner)

\* C28 (purchase trigger and amount bound): executeAutoPurchase runs only for
\* an event of kind listing (a call of checkAutoPurchase for a sale or a price
\* change looks up no rule), and only when the listing's price is at most the
\* rule's maxAmount, at most its maxPrice if set and at least its minPrice if
\* set; the amount of the attempt is the listing's price, so that no amount the
\* attempt commits to the ledger or writes to a log row exceeds maxAmount.
C28_PurchaseTriggerAndBound ==
  /\ \A h \in Handlers :
       proc[h].kind = "buy" => proc[h].ev.type = "listing"
  /\ \A h \in Handlers :
       (proc[h].pc \in ExecPcs /\ proc[h].kind = "buy")
       => LET a == autoActions[proc[h].act]
              price == proc[h].ev.price
          IN /\ price <= a.maxAmount
             /\ a.conditions.maxPrice # 0 => price <= a.conditions.maxPrice
             /\ a.conditions.minPrice # 0 => price >= a.conditions.minPrice
             /\ proc[h].amount = price
             /\ proc[h].committed <= a.maxAmount
  /\ last.act # 0 => last.committed <= autoActions[last.act].maxAmount
  /\ \A row \in DOMAIN autoActionLogs : row.amount <= autoActions[row.actionId].maxAmount

\* the listing at 250 is being bought for rule 5 (at least 100, at most 300)
\* after the loop passed rule 1 (at most 50) without an attempt and the attempt
\* for rule 2 failed
C28_Witness ==
  /\ \E h \in Handlers :
       /\ proc[h].pc = "checkLimits" /\ proc[h].act = 5 /\ proc[h].ev.hash = "t2"
       /\ proc[h].amount = 250
  /\ last.act = 2 /\ last.outcome = "failed"
  /\ \A row \in DOMAIN autoActionLogs : row.actionId = 2

(***************************************************************************)
(* Shutdown: properties.                                                   *)
(***************************************************************************)
AllStopped == stopped = {"contractMonitor", "alertService", "autoActionsService"}

\* C33 (shutdown stops intake): once stop() has been called on the three
\* services, no event is delivered to either dispatcher and no periodic job
\* runs again; and a call of stop() leaves the lock of every execution that is
\* in flight, and the spending ledger, as they were.
C33_ShutdownStopsIntake ==
  /\ [][AllStopped
         => /\ delivered' = delivered
            /\ adelivered' = adelivered
            /\ jobLog' = jobLog
            /\ cleaned' = cleaned
      ]_vars
  /\ [][stopped' # stopped
         => /\ monthlySpending' = monthlySpending
            /\ \A h \in Handlers :
                 (proc[h].pc \in ExecPcs /\ proc[h].key \in DOMAIN activeActions)
                 => /\ proc[h].key \in DOMAIN activeActions'
                    /\ activeActions'[proc[h].key] = activeActions[proc[h].key]
      ]_vars

InFlight(h) == proc[h].pc \in ExecPcs

\* C34: at every instant at most one execution attempt that has installed a
\* lock and has not returned is in flight for any (rule, domain), also when
\* cleanupStaleActions runs while an attempt is still waiting
C34_OneExecutionInFlight ==
  \A g, h \in Handlers :
    (g # h /\ InFlight(g) /\ InFlight(h)) => proc[g].key # proc[h].key

\* C35: an execution attempt that finds the lock of its (rule, domain) held
\* and is skipped leaves the lock entry and its start time as they are, so
\* the attempt that holds the lock stays protected
C35_SkipLeavesLockAlone ==
  [][(last' # last /\ last'.outcome = "skipped")
       => /\ activeActions' = activeActions
          /\ last'.key \in DOMAIN activeActions']_vars
C35_Witness ==
  /\ last.outcome = "skipped"
  /\ \E h \in Handlers : InFlight(h) /\ proc[h].key = last.key
                         /\ last.key \in DOMAIN activeActions
                         /\ activeActions[last.key] = proc[h].lockStart

\* C36: when the same event (same transaction hash and kind) is delivered a
\* second time while the first delivery is still awaiting its rule lookup or
\* a send, every matching rule is dispatched at most once in total: no rule
\* is dispatched by both of two overlapping calls for one event
C36_OverlappingDuplicates ==
  \A g, h \in AlertHandlers :
    (g # h /\ aproc[g].pc # "idle" /\ aproc[h].pc # "idle" /\ aproc[g].id = aproc[h].id)
      => \A r \in AlertIds : ~(aproc[g].emits[r] >= 1 /\ aproc[h].emits[r] >= 1)

\* C37: within the processing of one event every alert rule is dispatched at
\* most once and its triggerCount rises by at most 1, also when the rule is
\* returned by the exact-domain lookup and by the pattern lookup
C37_OneDispatchPerRulePerEvent ==
  /\ \A h \in AlertHandlers : \A r \in AlertIds :
       aproc[h].emits[r] <= 1 /\ aproc[h].bumped[r] <= 1
  /\ \A r \in AlertIds : alast.emits[r] <= 1 /\ alast.bumped[r] <= 1

C39_EvictionKeepsNewest ==
  /\ [][\A h \in AlertHandlers :
          (/\ aproc[h].pc # "idle" /\ aproc'[h].pc = "idle"
           /\ alast'.how = "done"
           /\ aproc[h].ev.type = "expiry"
           /\ aproc[h].id \notin Range(processedEvents)
           /\ Len(processedEvents) + 1 > ProcessedEventsMax)
          => LET all == Append(processedEvents, aproc[h].id) IN
             /\ Len(processedEvents') = ProcessedEventsKeep
             /\ processedEvents' = SubSeq(all, Len(all) - ProcessedEventsKeep + 1, Len(all))
             /\ processedEvents'[ProcessedEventsKeep] = aproc[h].id]_vars
  /\ [][adelivered' # adelivered
          => /\ \A h \in AlertHandlers :
                  aproc'[h] # aproc[h] => aproc'[h].id \notin Range(processedEvents)
             /\ aproc' = aproc
                  => /\ alast'.how = "duplicate"
                     /\ alast'.id \in Range(processedEvents)
                     /\ alertsEmitted' = alertsEmitted /\ alerts' = alerts]_vars
\* the window was cut to its newest keys by an expiry event, and the event is
\* delivered again and stopped at the dedup test
C39_Witness ==
  /\ Len(processedEvents) = ProcessedEventsKeep
  /\ processedEvents[ProcessedEventsKeep] = alast.id
  /\ processedEvents[1] = <<ToString(ProcessedEventsMax - ProcessedEventsKeep + 2), "expiry">>
  /\ alast.how = "duplicate"
  /\ alast.ev.type = "expiry"

====
